---- MODULE Spec2Model ----
(***************************************************************************)
(* A model of tinycss: decoding of bytes, regrouping of the flat token     *)
(* stream into a tree (tinycss/tokenizer.py) and the CSS 2.1 grammar       *)
(* parser that walks the tree (tinycss/css21.py).                          *)
(*                                                                         *)
(* Source positions: a flat token carries line 1 and, as its column, its   *)
(* ordinal position in the token stream.                                   *)
(***************************************************************************)
EXTENDS Integers, Sequences, FiniteSets, TLC

VARIABLES
    pc,           \* position of the running entry point
    flat,         \* the flat token stream of the source (tokenize_flat's output)
    encoding,     \* the encoding argument of parse_stylesheet
    tokens,       \* the iterator of regrouped top-level tokens not yet consumed
    rules,        \* parse_rules: rules parsed so far in the stylesheet context
    errors,       \* the error list of the running parse
    raised,       \* the exception that left the entry point, or "None"
    result,       \* the value returned by the entry point
    css_bytes,    \* parse_stylesheet_bytes: the byte string
    hints,        \* protocol_encoding, linking_encoding, document_encoding
    css_unicode,  \* the decoded text, a sequence of code points
    entry         \* the entry point that was called

vars == <<pc, flat, encoding, tokens, rules, errors, raised, result,
          css_bytes, hints, css_unicode, entry>>

\* Python's None where a string is expected (at_keyword, priority, encoding).
None == "None"

\* No value returned yet.
NoResult == [returned |-> FALSE]

\* Python's None where a token is expected (AtRule.body, next(tokens, None)).
NoToken == [type |-> "None"]

(***************************************************************************)
(* Tokens (tinycss/token_data.py)                                          *)
(***************************************************************************)

\* An atomic token; its as_css is kept in css_start.
Token(type_, css_value, value, line, column) ==
    [is_container |-> FALSE, type |-> type_, css_start |-> css_value,
     value |-> value, css_end |-> "", content |-> <<>>,
     line |-> line, column |-> column]

ContainerToken(type_, css_start, css_end, content, line, column) ==
    [is_container |-> TRUE, type |-> type_, css_start |-> css_start,
     value |-> css_start, css_end |-> css_end, content |-> content,
     line |-> line, column |-> column]

\* FunctionToken keeps the function name in value, "(" marker included, as
\* the FUNCTION token gave it.
FunctionToken(type_, css_start, css_end, function_name, content, line, column) ==
    [ContainerToken(type_, css_start, css_end, content, line, column)
        EXCEPT !.value = function_name]

\* ContainerToken.__len__: truth value of a token in `if not token`.
Truthy(token) ==
    /\ token # NoToken
    /\ (token.is_container => Len(token.content) > 0)

\* ContainerToken.as_css, as the sequence of the texts it concatenates.
RECURSIVE as_css(_)
RECURSIVE as_css_all(_)
as_css(token) ==
    IF token.is_container
    THEN <<token.css_start>> \o as_css_all(token.content) \o <<token.css_end>>
    ELSE <<token.css_start>>

as_css_all(content) ==
    IF content = <<>> THEN <<>>
    ELSE as_css(Head(content)) \o as_css_all(Tail(content))

(***************************************************************************)
(* regroup (tinycss/tokenizer.py)                                          *)
(***************************************************************************)

pairs == ("FUNCTION" :> ")") @@ ("(" :> ")") @@ ("[" :> "]") @@ ("{" :> "}")

\* Mutant of ImplicitEnd: the closer is recorded even at end of input.
ImplicitEndNever(end, eof) == end

\* `if eof[0]: end = ''`
ImplicitEnd(end, eof) == IF eof THEN "" ELSE end

\* Mutant of IsStop: any closing token ends the innermost group.
IsStopAnyCloser(type_, stop_at) ==
    stop_at # None /\ type_ \in {")", "]", "}"}

\* The closing token that matches stop_at ends the group and is removed.
IsStop(type_, stop_at) == type_ = stop_at

\* Mutant of MakeGroup: the token's type is passed where its text belongs.
MakeGroupTypeAsStart(token, end, content) ==
    ContainerToken(token.type, token.type, end, content,
                   token.line, token.column)

\* One grouping token and its collected content become a container.
MakeGroup(token, end, content) ==
    IF token.type = "FUNCTION"
    THEN FunctionToken(token.type, token.css_start, end, token.value, content,
                       token.line, token.column)
    ELSE ContainerToken(token.type, token.css_start, end, content,
                        token.line, token.column)

\* _regroup_inner, run from position i of the shared iterator `toks` with
\* the shared flag eof: the content it yields, the position the iterator is
\* left at, and the flag.
RECURSIVE _regroup_inner(_, _, _, _)
_regroup_inner(stop_at, toks, i, eof) ==
    IF i > Len(toks)
    THEN [content |-> <<>>, pos |-> i, eof |-> TRUE]
    ELSE LET token == toks[i] IN
         IF IsStop(token.type, stop_at)
         THEN [content |-> <<>>, pos |-> i + 1, eof |-> eof]
         ELSE IF token.type \notin DOMAIN pairs
         THEN LET rest == _regroup_inner(stop_at, toks, i + 1, eof)
              IN  [rest EXCEPT !.content = <<token>> \o @]
         ELSE LET inner == _regroup_inner(pairs[token.type], toks, i + 1, eof)
                  end   == ImplicitEnd(pairs[token.type], inner.eof)
                  rest  == _regroup_inner(stop_at, toks, inner.pos, inner.eof)
              IN  [rest EXCEPT
                      !.content = <<MakeGroup(token, end, inner.content)>> \o @]

regroup(toks) == _regroup_inner(None, toks, 1, FALSE).content

(***************************************************************************)
(* Exceptions                                                              *)
(***************************************************************************)

NoExc == [exc |-> "None"]

\* ParseError.__init__ reads subject.line and subject.column: with None as
\* the subject the constructor itself fails with an AttributeError, which is
\* not a ParseError.
ParseError(subject, reason) ==
    IF subject = NoToken
    THEN [exc |-> "AttributeError"]
    ELSE [exc |-> "ParseError", line |-> subject.line,
          column |-> subject.column, reason |-> reason]

(***************************************************************************)
(* The 'any' and 'block' productions (tinycss/css21.py)                    *)
(***************************************************************************)

AnyTypes == {"S", "IDENT", "DIMENSION", "PERCENTAGE", "NUMBER", "INTEGER",
             "URI", "DELIM", "STRING", "HASH", ":", "UNICODE-RANGE"}

\* 'unmatched' for a closing token, 'unexpected' for the rest.
Adjective(type_) ==
    IF type_ \in {"}", ")", "]"} THEN "unmatched" ELSE "unexpected"

\* validate_any: the ParseError it raises, or NoExc.
RECURSIVE validate_any(_, _)
RECURSIVE validate_any_each(_, _)
validate_any(token, context) ==
    IF token.type \in {"FUNCTION", "(", "["}
    THEN validate_any_each(token.content, token.type)
    ELSE IF token.type \notin AnyTypes
    THEN ParseError(token, Adjective(token.type) \o " " \o token.type
                           \o " token in " \o context)
    ELSE NoExc

\* `for token in ...: self.validate_any(token, context)`
validate_any_each(toks, context) ==
    IF toks = <<>> THEN NoExc
    ELSE LET exc == validate_any(Head(toks), context) IN
         IF exc # NoExc THEN exc ELSE validate_any_each(Tail(toks), context)

\* validate_block: the ParseError it raises, or NoExc.
RECURSIVE validate_block(_, _)
validate_block(toks, context) ==
    IF toks = <<>> THEN NoExc
    ELSE LET token == Head(toks)
             exc == IF token.type = "{"
                    THEN validate_block(token.content, context)
                    ELSE IF token.type \notin {";", "ATKEYWORD"}
                    THEN validate_any(token, context)
                    ELSE NoExc
         IN  IF exc # NoExc THEN exc ELSE validate_block(Tail(toks), context)

(***************************************************************************)
(* Inputs: flat token streams                                              *)
(***************************************************************************)

SeqsUpTo(S, n) == UNION {[1..k -> S] : k \in 0..n}

\* The type, source text and value of a token of the alphabet.
K(type_, css_value, value) ==
    [type |-> type_, css |-> css_value, value |-> value]

\* The flat stream of a sequence of token kinds: line 1, column = position.
Positioned(kinds) ==
    [i \in 1..Len(kinds) |->
        Token(kinds[i].type, kinds[i].css, kinds[i].value, 1, i)]

\* Longest flat stream given to regroup alone.
MaxFlatLen == 4

GroupingKinds ==
    {K("IDENT", "a", "a"), K("FUNCTION", "f(", "f("),
     K("(", "(", "("), K(")", ")", ")"),
     K("[", "[", "["), K("]", "]", "]"),
     K("{", "{", "{"), K("}", "}", "}")}

(***************************************************************************)
(* Regrouping alone: tokenize_grouped, then the 'block' production over    *)
(* the whole tree                                                          *)
(***************************************************************************)

Idle ==
    /\ encoding = None /\ rules = <<>> /\ raised = None /\ result = NoResult
    /\ css_bytes = <<>> /\ hints = <<>> /\ css_unicode = <<>>
    /\ entry = "tokenize_grouped"

InitRegroup ==
    /\ pc = "regroup"
    /\ flat \in {Positioned(ks) : ks \in SeqsUpTo(GroupingKinds, MaxFlatLen)}
    /\ tokens = <<>>
    /\ errors = <<>>
    /\ Idle

\* tokenize_grouped: the whole stream is regrouped.
TokenizeGrouped ==
    /\ pc = "regroup"
    /\ tokens' = regroup(flat)
    /\ pc' = "validate"
    /\ UNCHANGED <<flat, encoding, rules, errors, raised, result,
                   css_bytes, hints, css_unicode, entry>>

\* validate_block over the regrouped tokens; a ParseError goes to errors.
ValidateTree ==
    /\ pc = "validate"
    /\ LET exc == validate_block(tokens, "property value") IN
       errors' = IF exc = NoExc THEN <<>> ELSE <<exc>>
    /\ pc' = "done"
    /\ UNCHANGED <<flat, encoding, tokens, rules, raised, result,
                   css_bytes, hints, css_unicode, entry>>

NextRegroup == TokenizeGrouped \/ ValidateTree

SpecRegroup == InitRegroup /\ [][NextRegroup]_vars

(***************************************************************************)
(* Bracket matching stated on the flat stream, for the claims on regroup   *)
(***************************************************************************)

Closers == {")", "]", "}"}

\* A left-to-right scan with the stack of the openers that are still open:
\* closed = the openers whose closer was read, stray = the closers that did
\* not match the innermost open opener, parent[i] = the innermost opener
\* open when token i was read (0 at top level).
RECURSIVE BracketScan(_, _, _, _)
BracketScan(toks, i, stack, acc) ==
    IF i > Len(toks) THEN acc
    ELSE LET t   == toks[i].type
             top == IF stack = <<>> THEN 0 ELSE Head(stack)
             acc1 == [acc EXCEPT !.parent = (i :> top) @@ @]
         IN  IF t \in DOMAIN pairs
             THEN BracketScan(toks, i + 1, <<i>> \o stack, acc1)
             ELSE IF t \in Closers /\ top # 0 /\ pairs[toks[top].type] = t
             THEN BracketScan(toks, i + 1, Tail(stack),
                              [acc1 EXCEPT !.closed = @ \cup {top}])
             ELSE IF t \in Closers
             THEN BracketScan(toks, i + 1, stack,
                              [acc1 EXCEPT !.stray = @ \cup {i}])
             ELSE BracketScan(toks, i + 1, stack, acc1)

Brackets(toks) ==
    BracketScan(toks, 1, <<>>, [closed |-> {}, stray |-> {}, parent |-> <<>>])

\* Every token of a tree, at any depth, with the column of the container
\* that directly holds it (0 at top level).
RECURSIVE Held(_, _)
Held(content, holder) ==
    IF content = <<>> THEN {}
    ELSE LET token == Head(content) IN
         {[token |-> token, holder |-> holder]}
         \cup (IF token.is_container
               THEN Held(token.content, token.column) ELSE {})
         \cup Held(Tail(content), holder)

Containers(content) ==
    {h.token : h \in {g \in Held(content, 0) : g.token.is_container}}

Min(S) == CHOOSE m \in S : \A n \in S : m <= n

\* The greatest of a set of positions, 0 for the empty set.
Max0(S) == IF S = {} THEN 0 ELSE CHOOSE m \in S : \A n \in S : n <= m

Regrouped == pc \in {"validate", "done"}

\* C5: flattening the output of regroup (css_start, the children, css_end,
\* recursively and in order) gives back the texts of the flat stream: no
\* token is lost, duplicated or reordered.
FlattenRoundTrip ==
    Regrouped =>
        SelectSeq(as_css_all(tokens), LAMBDA text : text # "")
            = [i \in 1..Len(flat) |-> flat[i].css_start]

\* C5 witness: a stream with a stray closer and a container left open.
FlattenWitness ==
    /\ Regrouped
    /\ Brackets(flat).stray # {}
    /\ \E c \in Containers(tokens) : c.css_end = ""

\* C6: a container's css_end is its own closer when that closer was read,
\* and the empty string exactly when it was still open at the end.
CssEndExact ==
    Regrouped =>
        \A c \in Containers(tokens) :
            c.css_end = IF c.column \in Brackets(flat).closed
                        THEN pairs[c.type] ELSE ""

\* C6 witness: a closed container directly inside one left open at the end.
CssEndWitness ==
    /\ Regrouped
    /\ \E h \in Held(tokens, 0) :
          /\ h.token.is_container /\ h.token.css_end # ""
          /\ \E d \in Containers(tokens) :
                d.column = h.holder /\ d.css_end = ""

\* The positions the 'block' production rejects: stray closers, and a '{'
\* directly inside a function or '(' or '['.
Rejected(toks) ==
    LET b == Brackets(toks) IN
    {i \in 1..Len(toks) :
        \/ i \in b.stray
        \/ /\ toks[i].type = "{"
           /\ b.parent[i] # 0
           /\ toks[b.parent[i]].type # "{"}

\* The context validate_any names for the token at position i.
ContextAt(toks, i, context) ==
    LET p == Brackets(toks).parent[i] IN
    IF p # 0 /\ toks[p].type # "{" THEN toks[p].type ELSE context

\* C7: a closer that does not match the innermost open container closes
\* nothing and stays, as an atomic token, in the content of that container
\* (or at top level); validated, it is an 'unmatched' error at its place.
StrayCloserKept ==
    /\ Regrouped =>
          {<<h.token.column, h.holder>> :
              h \in {g \in Held(tokens, 0) : g.token.type \in Closers}}
          = {<<i, Brackets(flat).parent[i]>> : i \in Brackets(flat).stray}
    /\ (pc = "done" /\ Rejected(flat) # {}
            /\ Min(Rejected(flat)) \in Brackets(flat).stray) =>
          LET i == Min(Rejected(flat)) IN
          errors = <<[exc |-> "ParseError", line |-> 1, column |-> i,
                      reason |-> "unmatched " \o flat[i].type \o " token in "
                          \o ContextAt(flat, i, "property value")]>>

\* C7 witness: a stray closer kept inside an open container, and reported.
StrayCloserWitness ==
    /\ pc = "done"
    /\ \E h \in Held(tokens, 0) : h.token.type \in Closers /\ h.holder # 0
    /\ Len(errors) = 1
    /\ errors[1].column \in Brackets(flat).stray

(***************************************************************************)
(* Rule objects (tinycss/css21.py)                                         *)
(***************************************************************************)

\* A Stylesheet that does not keep the encoding.
StylesheetNoEncoding(rules_, errors_, encoding_) ==
    [rules |-> rules_, errors |-> errors_, encoding |-> None]

Stylesheet(rules_, errors_, encoding_) ==
    [rules |-> rules_, errors |-> errors_, encoding |-> encoding_]

AtRule(at_keyword, head, body, line, column) ==
    [at_keyword |-> at_keyword, head |-> head, body |-> body,
     line |-> line, column |-> column]

RuleSet(selector, declarations, line, column) ==
    [at_keyword |-> None, selector |-> selector,
     declarations |-> declarations, line |-> line, column |-> column]

Declaration(name, value, priority, line, column) ==
    [name |-> name, value |-> value, priority |-> priority,
     line |-> line, column |-> column]

PageRule(selector, specificity, declarations, at_rules, line, column) ==
    [at_keyword |-> "@page", selector |-> selector,
     specificity |-> specificity, declarations |-> declarations,
     at_rules |-> at_rules, line |-> line, column |-> column]

MediaRule(media, rules_, line, column) ==
    [at_keyword |-> "@media", media |-> media, rules |-> rules_,
     line |-> line, column |-> column]

ImportRule(uri, media, line, column) ==
    [at_keyword |-> "@import", uri |-> uri, media |-> media,
     line |-> line, column |-> column]

(***************************************************************************)
(* Helpers for the token lists the parser walks                            *)
(***************************************************************************)

\* str.lower() on the values of the token alphabet.
Lower(s) ==
    CASE s = "B" -> "b"
      [] s = "@CHARSET" -> "@charset"
      [] s = "@IMPORT" -> "@import"
      [] s = "@Media" -> "@media"
      [] s = "PRINT" -> "print"
      [] OTHER -> s

\* `string.as_css[0] == '"'` on the STRING texts of the token alphabet.
StartsWithDoubleQuote(css_value) ==
    css_value \in {"\"u\"", "\"utf8\"", "\"latin1\"", "\"bogus\""}

\* `while head and head[-1].type == 'S': head.pop()`
RECURSIVE StripTrailingS(_)
StripTrailingS(toks) ==
    IF toks # <<>> /\ toks[Len(toks)].type = "S"
    THEN StripTrailingS(SubSeq(toks, 1, Len(toks) - 1))
    ELSE toks

RECURSIVE SkipLeadingS(_)
\* A reader that keeps the white space after the at-keyword.
SkipLeadingS_never(toks) == toks

\* `elif head or token.type != 'S': head.append(token)`
SkipLeadingS(toks) ==
    IF toks # <<>> /\ Head(toks).type = "S"
    THEN SkipLeadingS(Tail(toks))
    ELSE toks

\* The first position of toks that satisfies Test, or 0.
FirstIndex(toks, Test(_)) ==
    IF \E i \in 1..Len(toks) : Test(toks[i])
    THEN Min({i \in 1..Len(toks) : Test(toks[i])})
    ELSE 0

After(toks, i) == SubSeq(toks, i + 1, Len(toks))

(***************************************************************************)
(* Declarations (tinycss/css21.py)                                         *)
(***************************************************************************)

\* parse_value: the exception it raises (or NoExc) and the content list.
RECURSIVE parse_value_loop(_, _)
parse_value_loop(toks, content) ==
    IF toks = <<>>
    THEN [exc |-> NoExc, content |-> StripTrailingS(content)]
    ELSE LET token == Head(toks) IN
         IF content # <<>> \/ token.type # "S"
         THEN LET exc == IF token.type = "{"
                         THEN validate_block(token.content, "property value")
                         ELSE validate_any(token, "property value")
              IN  IF exc # NoExc
                  THEN [exc |-> exc, content |-> <<>>]
                  ELSE parse_value_loop(Tail(toks), Append(content, token))
         ELSE parse_value_loop(Tail(toks), content)

\* A parser that takes the tokens after the ':' as they are.
parse_value_as_written(toks) == [exc |-> NoExc, content |-> toks]

parse_value(toks) == parse_value_loop(toks, <<>>)

\* `token.type == 'IDENT' and token.value == 'important'`
IsImportant(token) == token.type = "IDENT" /\ token.value = "important"

\* The walk from the end, after 'important' was popped: value is what is
\* left of the list.
RECURSIVE parse_value_priority_walk(_, _)
parse_value_priority_walk(original_value, value) ==
    IF value = <<>>
    THEN [exc |-> NoExc, value |-> original_value, priority |-> None]
    ELSE LET token == value[Len(value)]
             popped == SubSeq(value, 1, Len(value) - 1)
         IN  IF token.type = "DELIM" /\ token.value = "!"
             THEN LET stripped == StripTrailingS(popped) IN
                  IF stripped = <<>>
                  THEN [exc |-> ParseError(token,
                                    "expected a value before !important"),
                        value |-> <<>>, priority |-> None]
                  ELSE [exc |-> NoExc, value |-> stripped,
                        priority |-> "important"]
             ELSE IF token.type # "S"
             THEN [exc |-> NoExc, value |-> original_value, priority |-> None]
             ELSE parse_value_priority_walk(original_value, popped)

\* parse_value_priority that takes any last IDENT for 'important'.
parse_value_priority_any_ident(original_value) ==
    LET token == original_value[Len(original_value)] IN
    IF token.type = "IDENT"
    THEN parse_value_priority_walk(original_value,
             SubSeq(original_value, 1, Len(original_value) - 1))
    ELSE [exc |-> NoExc, value |-> original_value, priority |-> None]

\* parse_value_priority on a non-empty list.
parse_value_priority(original_value) ==
    LET token == original_value[Len(original_value)] IN
    IF IsImportant(token)
    THEN parse_value_priority_walk(original_value,
             SubSeq(original_value, 1, Len(original_value) - 1))
    ELSE [exc |-> NoExc, value |-> original_value, priority |-> None]

\* The end of parse_declaration: the Declaration of the name and of the
\* value vp that parse_value_priority gave, or the ParseError it raised.
declaration_with_priority(name_token, vp) ==
    IF vp.exc # NoExc THEN [exc |-> vp.exc]
    ELSE [exc |-> NoExc,
          declaration |-> Declaration(
              Lower(name_token.value),
              ContainerToken("VALUES", "", "", vp.value,
                             vp.value[1].line, vp.value[1].column),
              vp.priority,
              name_token.line, name_token.column)]

\* parse_declaration after parse_value gave v for the tokens after colon.
declaration_with_value(name_token, colon, v) ==
    IF v.exc # NoExc THEN [exc |-> v.exc]
    ELSE IF v.content = <<>>
    THEN [exc |-> ParseError(colon, "expected a property value")]
    ELSE declaration_with_priority(name_token,
                                   parse_value_priority(v.content))

\* A parser that raises "expected ':'" on the property name.
declaration_after_name_at_name(name_token, after_name, stop) ==
    IF stop = 0
    THEN [exc |-> ParseError(name_token, "expected ':'")]
    ELSE IF after_name[stop].type # ":"
    THEN [exc |-> ParseError(after_name[stop],
              "expected ':', got " \o after_name[stop].type)]
    ELSE declaration_with_value(name_token, after_name[stop],
                                parse_value(After(after_name, stop)))

\* parse_declaration after the name: stop is the first position of
\* after_name that is not white space, or 0.
declaration_after_name(name_token, after_name, stop) ==
    IF stop = 0
    THEN [exc |-> ParseError(
              IF after_name = <<>> THEN name_token
              ELSE after_name[Len(after_name)], "expected ':'")]
    ELSE IF after_name[stop].type # ":"
    THEN [exc |-> ParseError(after_name[stop],
              "expected ':', got " \o after_name[stop].type)]
    ELSE declaration_with_value(name_token, after_name[stop],
                                parse_value(After(after_name, stop)))

\* parse_declaration on a non-empty list: the ParseError it raises, or the
\* Declaration.
parse_declaration(toks) ==
    IF Head(toks).type # "IDENT"
    THEN [exc |-> ParseError(Head(toks),
              "expected a property name, got " \o Head(toks).type)]
    ELSE declaration_after_name(Head(toks), Tail(toks),
             FirstIndex(Tail(toks), LAMBDA t : t.type # "S"))

\* `split at ';'`: the non-empty parts, white space skipped at their start.
RECURSIVE SplitParts(_, _, _)
SplitParts(toks, this_part, parts) ==
    IF toks = <<>>
    THEN IF this_part # <<>> THEN Append(parts, this_part) ELSE parts
    ELSE LET token == Head(toks) IN
         IF token.type = ";"
         THEN SplitParts(Tail(toks), <<>>,
                  IF this_part # <<>> THEN Append(parts, this_part) ELSE parts)
         ELSE IF this_part # <<>> \/ token.type # "S"
         THEN SplitParts(Tail(toks), Append(this_part, token), parts)
         ELSE SplitParts(Tail(toks), this_part, parts)

RECURSIVE ParseParts(_, _, _)

\* `try: declarations.append(...) except ParseError as exc:
\* errors.append(exc)`, d being what parse_declaration gave for the part.
parts_after(d, parts, declarations, errors_) ==
    IF d.exc = NoExc
    THEN ParseParts(parts, Append(declarations, d.declaration), errors_)
    ELSE ParseParts(parts, declarations, Append(errors_, d.exc))

\* A list parser that gives up at the first part that fails.
ParsePartsStopAtError(parts, declarations, errors_) ==
    IF parts = <<>> \/ errors_ # <<>>
    THEN [declarations |-> declarations, errors |-> errors_]
    ELSE parts_after(parse_declaration(Head(parts)), Tail(parts),
                     declarations, errors_)

\* One part becomes one declaration or one error.
ParseParts(parts, declarations, errors_) ==
    IF parts = <<>>
    THEN [declarations |-> declarations, errors |-> errors_]
    ELSE parts_after(parse_declaration(Head(parts)), Tail(parts),
                     declarations, errors_)

parse_declaration_list(toks) ==
    ParseParts(SplitParts(toks, <<>>, <<>>), <<>>, <<>>)

(***************************************************************************)
(* Statements (tinycss/css21.py)                                           *)
(***************************************************************************)

\* `token.type in '{;'`
EndsAtRule(token) == token.type \in {"{", ";"}

\* A reader that, when the head is invalid, takes the rest of the input too.
read_at_rule_greedy(at_keyword_token, toks) ==
    LET at_keyword == Lower(at_keyword_token.value)
        j == FirstIndex(toks, EndsAtRule)
    IN  IF j = 0
        THEN [exc |-> ParseError(IF toks = <<>> THEN at_keyword_token
                                 ELSE toks[Len(toks)], "incomplete at-rule"),
              rest |-> <<>>]
        ELSE LET head == StripTrailingS(SkipLeadingS(SubSeq(toks, 1, j - 1)))
                 body == IF toks[j].type = "{" THEN toks[j] ELSE NoToken
                 exc  == validate_any_each(head, "at-rule head")
             IN  [exc |-> exc,
                  rule |-> AtRule(at_keyword, head, body,
                                  at_keyword_token.line,
                                  at_keyword_token.column),
                  rest |-> IF exc = NoExc THEN After(toks, j) ELSE <<>>]

\* read_at_rule: the ParseError it raises (or NoExc), the unparsed AtRule,
\* and what is left of the shared iterator.
read_at_rule(at_keyword_token, toks) ==
    LET at_keyword == Lower(at_keyword_token.value)
        j == FirstIndex(toks, EndsAtRule)
    IN  IF j = 0
        THEN [exc |-> ParseError(IF toks = <<>> THEN at_keyword_token
                                 ELSE toks[Len(toks)], "incomplete at-rule"),
              rest |-> <<>>]
        ELSE LET head == StripTrailingS(SkipLeadingS(SubSeq(toks, 1, j - 1)))
                 body == IF toks[j].type = "{" THEN toks[j] ELSE NoToken
             IN  [exc |-> validate_any_each(head, "at-rule head"),
                  rule |-> AtRule(at_keyword, head, body,
                                  at_keyword_token.line,
                                  at_keyword_token.column),
                  rest |-> After(toks, j)]

\* The end of parse_ruleset: the selector is validated and the RuleSet is
\* built with the declarations d of the block.
ruleset_with_block(first_token, selector_parts, block, d, rest) ==
    [exc |-> validate_any_each(selector_parts, "selector"),
     rule |-> RuleSet(
         ContainerToken("SELECTOR", "", "", selector_parts,
             (IF selector_parts # <<>> THEN selector_parts[1] ELSE block).line,
             (IF selector_parts # <<>> THEN selector_parts[1]
              ELSE block).column),
         d.declarations, first_token.line, first_token.column),
     errors |-> d.errors,
     rest |-> rest]

\* parse_ruleset over all, the first token and the iterator: j is the
\* position of the first block, or 0.
ruleset_upto_block(first_token, all, j) ==
    IF j = 0
    THEN [exc |-> ParseError(all[Len(all)],
                      "no declaration block found for ruleset"),
          rest |-> <<>>]
    ELSE ruleset_with_block(first_token,
             StripTrailingS(SubSeq(all, 1, j - 1)), all[j],
             parse_declaration_list(all[j].content), After(all, j))

\* parse_ruleset: the ParseError it raises (or NoExc), the RuleSet with the
\* errors of its declarations, and what is left of the shared iterator.
parse_ruleset(first_token, toks) ==
    ruleset_upto_block(first_token, <<first_token>> \o toks,
        FirstIndex(<<first_token>> \o toks, LAMBDA t : t.type = "{"))

IsComma(token) == token.type = "DELIM" /\ token.value = ","

\* next(tokens, None) at position i.
NextOrNone(toks, i) == IF i <= Len(toks) THEN toks[i] ELSE NoToken

\* parse_media from the token at position i, media_types collected so far.
RECURSIVE parse_media_loop(_, _, _)
parse_media_loop(toks, i, media_types) ==
    LET token == toks[i] IN
    IF token.type # "IDENT"
    THEN [exc |-> ParseError(token,
                      "expected a media type, got " \o token.type)]
    ELSE LET types == Append(media_types, Lower(token.value))
             comma == NextOrNone(toks, i + 1)
         IN  IF ~Truthy(comma)
             THEN [exc |-> NoExc, media |-> types]
             ELSE IF ~IsComma(comma)
             THEN [exc |-> ParseError(comma,
                               "expected a comma, got " \o comma.type)]
             ELSE LET \* the first token after the comma that is falsy or
                      \* not white space
                      k == FirstIndex(After(toks, i + 1),
                               LAMBDA t : ~Truthy(t) \/ t.type # "S")
                      \* `token` when next_token is None or falsy: the
                      \* comma, or the last white space after it
                      last == IF k = 0 THEN toks[Len(toks)] ELSE toks[i + k]
                  IN  IF k = 0 \/ ~Truthy(toks[i + 1 + k])
                      THEN [exc |-> ParseError(last,
                                        "expected a media type")]
                      ELSE parse_media_loop(toks, i + 1 + k, types)

\* parse_media on a non-empty list.
parse_media(toks) == parse_media_loop(toks, 1, <<>>)

\* A selector parser that does not look at the length of the head.
parse_page_selector_any_length(head) ==
    IF head = <<>>
    THEN [exc |-> NoExc, selector |-> None, specificity |-> <<0, 0>>]
    ELSE IF /\ Len(head) >= 2 /\ head[1].type = ":" /\ head[2].type = "IDENT"
            /\ head[2].value \in {"first", "left", "right"}
    THEN [exc |-> NoExc, selector |-> head[2].value,
          specificity |-> IF head[2].value = "first"
                          THEN <<1, 0>> ELSE <<0, 1>>]
    ELSE [exc |-> ParseError(head[1], "invalid @page selector")]

\* parse_page_selector (CSS 2.1).
parse_page_selector(head) ==
    IF head = <<>>
    THEN [exc |-> NoExc, selector |-> None, specificity |-> <<0, 0>>]
    ELSE IF /\ Len(head) = 2 /\ head[1].type = ":" /\ head[2].type = "IDENT"
            /\ head[2].value \in {"first", "left", "right"}
    THEN [exc |-> NoExc, selector |-> head[2].value,
          specificity |-> IF head[2].value = "first"
                          THEN <<1, 0>> ELSE <<0, 1>>]
    ELSE [exc |-> ParseError(head[1], "invalid @page selector")]

\* A parser in which no previous rule forbids an @import.
FirstBlockingRuleNone(previous_rules) == 0

\* `for previous_rule in previous_rules: if previous_rule.at_keyword not in
\* ('@charset', '@import')`: the first rule that forbids an @import, or 0.
FirstBlockingRule(previous_rules) ==
    FirstIndex(previous_rules,
               LAMBDA r : r.at_keyword \notin {"@charset", "@import"})

\* The media of an @import whose head has more than one token.
ImportMedia(head) ==
    LET i == FirstIndex(Tail(head), LAMBDA t : t.type # "S") IN
    IF i = 0 THEN [exc |-> NoExc, media |-> <<"all">>]
    ELSE parse_media(After(head, i))

RECURSIVE parse_rules_loop(_, _, _, _)
RECURSIVE parse_at_rule(_, _, _, _)
RECURSIVE parse_page_block_loop(_, _, _, _)

\* parse_page_block: declarations, at_rules, the error list, and the
\* exception that is not a ParseError, if any.
parse_page_block(body, errors_) ==
    parse_page_block_loop(body.content, <<>>, <<>>, errors_)

\* The PageRule of the selector sel and of the parsed block blk.
page_rule_with_block(rule, sel, blk) ==
    [exc |-> blk.exc,
     result |-> PageRule(sel.selector, sel.specificity,
                         blk.declarations, blk.at_rules,
                         rule.line, rule.column),
     errors |-> blk.errors]

\* '@page' in the stylesheet context, sel being what parse_page_selector
\* gave for the head.
page_rule_with_selector(rule, sel, errors_) ==
    IF sel.exc # NoExc THEN [exc |-> sel.exc, errors |-> errors_]
    ELSE IF rule.body = NoToken
    THEN [exc |-> ParseError(rule, "invalid " \o rule.at_keyword
                                   \o " rule: missing block"),
          errors |-> errors_]
    ELSE page_rule_with_block(rule, sel,
                              parse_page_block(rule.body, errors_))

\* The MediaRule of the media m and of the rules sub of the block.
media_rule_with_rules(rule, m, sub) ==
    [exc |-> sub.exc,
     result |-> MediaRule(m.media, sub.rules, rule.line, rule.column),
     errors |-> sub.errors]

\* '@media' whose block is parsed in the context of the stylesheet.
media_rule_in_stylesheet_context(rule, m, errors_) ==
    IF m.exc # NoExc THEN [exc |-> m.exc, errors |-> errors_]
    ELSE IF rule.body = NoToken
    THEN [exc |-> ParseError(rule, "invalid " \o rule.at_keyword
                                   \o " rule: missing block"),
          errors |-> errors_]
    ELSE media_rule_with_rules(rule, m,
             parse_rules_loop(rule.body.content, <<>>, errors_, "stylesheet"))

\* '@media' with a head, m being what parse_media gave for it.
media_rule_with_media(rule, m, errors_) ==
    IF m.exc # NoExc THEN [exc |-> m.exc, errors |-> errors_]
    ELSE IF rule.body = NoToken
    THEN [exc |-> ParseError(rule, "invalid " \o rule.at_keyword
                                   \o " rule: missing block"),
          errors |-> errors_]
    ELSE media_rule_with_rules(rule, m,
             parse_rules_loop(rule.body.content, <<>>, errors_, "@media"))

\* '@import' with a URI, m being its media.
import_rule_with_media(rule, m, errors_) ==
    IF m.exc # NoExc THEN [exc |-> m.exc, errors |-> errors_]
    ELSE IF rule.body # NoToken
    THEN [exc |-> ParseError(rule.body, "expected ';', got a block"),
          errors |-> errors_]
    ELSE [exc |-> NoExc,
          result |-> ImportRule(rule.head[1].value, m.media,
                                rule.line, rule.column),
          errors |-> errors_]

\* A parser that lets an @import follow a ruleset.
import_rule_after_a_ruleset(rule, previous_rules, b, errors_) ==
    IF b # 0 /\ previous_rules[b].at_keyword # None
    THEN [exc |-> ParseError(previous_rules[b],
              "@import rule not allowed after " \o
              (IF previous_rules[b].at_keyword # None
               THEN "an " \o previous_rules[b].at_keyword \o " rule"
               ELSE "a ruleset")),
          errors |-> errors_]
    ELSE IF rule.head = <<>>
    THEN [exc |-> ParseError(rule, "expected URI or STRING for @import rule"),
          errors |-> errors_]
    ELSE IF rule.head[1].type \notin {"URI", "STRING"}
    THEN [exc |-> ParseError(rule,
              "expected URI or STRING for @import rule, got "
              \o rule.head[1].type),
          errors |-> errors_]
    ELSE import_rule_with_media(rule,
             IF Len(rule.head) = 1
             THEN [exc |-> NoExc, media |-> <<"all">>]
             ELSE ImportMedia(rule.head),
             errors_)

\* '@import' in the stylesheet context, b being the first previous rule
\* that forbids it, or 0.
import_rule_after(rule, previous_rules, b, errors_) ==
    IF b # 0
    THEN [exc |-> ParseError(previous_rules[b],
              "@import rule not allowed after " \o
              (IF previous_rules[b].at_keyword # None
               THEN "an " \o previous_rules[b].at_keyword \o " rule"
               ELSE "a ruleset")),
          errors |-> errors_]
    ELSE IF rule.head = <<>>
    THEN [exc |-> ParseError(rule, "expected URI or STRING for @import rule"),
          errors |-> errors_]
    ELSE IF rule.head[1].type \notin {"URI", "STRING"}
    THEN [exc |-> ParseError(rule,
              "expected URI or STRING for @import rule, got "
              \o rule.head[1].type),
          errors |-> errors_]
    ELSE import_rule_with_media(rule,
             IF Len(rule.head) = 1
             THEN [exc |-> NoExc, media |-> <<"all">>]
             ELSE ImportMedia(rule.head),
             errors_)

\* parse_at_rule: the exception it raises (or NoExc), the parsed rule and
\* the error list as the calls it made left it.
parse_at_rule(rule, previous_rules, errors_, context) ==
    IF rule.at_keyword = "@page"
    THEN IF context # "stylesheet"
         THEN [exc |-> ParseError(rule, "@page rule not allowed in " \o context),
               errors |-> errors_]
         ELSE page_rule_with_selector(rule, parse_page_selector(rule.head),
                                      errors_)
    ELSE IF rule.at_keyword = "@media"
    THEN IF context # "stylesheet"
         THEN [exc |-> ParseError(rule, "@media rule not allowed in " \o context),
               errors |-> errors_]
         ELSE IF rule.head = <<>>
         THEN [exc |-> ParseError(rule.body, "expected media types for @media"),
               errors |-> errors_]
         ELSE media_rule_with_media(rule, parse_media(rule.head), errors_)
    ELSE IF rule.at_keyword = "@import"
    THEN IF context # "stylesheet"
         THEN [exc |-> ParseError(rule, "@import rule not allowed in " \o context),
               errors |-> errors_]
         ELSE import_rule_after(rule, previous_rules,
                                FirstBlockingRule(previous_rules), errors_)
    ELSE IF rule.at_keyword = "@charset"
    THEN [exc |-> ParseError(rule, "mis-placed or malformed @charset rule"),
          errors |-> errors_]
    ELSE [exc |-> ParseError(rule, "unknown at-rule in " \o context
                                   \o " context: " \o rule.at_keyword),
          errors |-> errors_]

\* `rules.append(result)`, or `except ParseError as exc: errors.append(exc)`,
\* or the exception that leaves parse_rules: r is the at-rule that was read
\* and p what parse_at_rule gave for it.
at_rule_parsed(r, p, rules_) ==
    IF p.exc = NoExc
    THEN [rest |-> r.rest, rules |-> Append(rules_, p.result),
          errors |-> p.errors, exc |-> NoExc]
    ELSE IF p.exc.exc = "ParseError"
    THEN [rest |-> r.rest, rules |-> rules_,
          errors |-> Append(p.errors, p.exc), exc |-> NoExc]
    ELSE [rest |-> r.rest, rules |-> rules_,
          errors |-> p.errors, exc |-> p.exc]

\* The at-rule branch of the loop, r being what read_at_rule gave.
at_rule_read(r, rules_, errors_, context) ==
    IF r.exc # NoExc
    THEN [rest |-> r.rest, rules |-> rules_,
          errors |-> Append(errors_, r.exc), exc |-> NoExc]
    ELSE at_rule_parsed(r, parse_at_rule(r.rule, rules_, errors_, context),
                        rules_)

\* A loop that puts each ruleset in front of the rules it already has.
ruleset_parsed_in_front(rs, rules_, errors_) ==
    IF rs.exc = NoExc
    THEN [rest |-> rs.rest, rules |-> <<rs.rule>> \o rules_,
          errors |-> errors_ \o rs.errors, exc |-> NoExc]
    ELSE [rest |-> rs.rest, rules |-> rules_,
          errors |-> Append(errors_, rs.exc), exc |-> NoExc]

\* The ruleset branch of the loop, rs being what parse_ruleset gave.
ruleset_parsed(rs, rules_, errors_) ==
    IF rs.exc = NoExc
    THEN [rest |-> rs.rest, rules |-> Append(rules_, rs.rule),
          errors |-> errors_ \o rs.errors, exc |-> NoExc]
    ELSE [rest |-> rs.rest, rules |-> rules_,
          errors |-> Append(errors_, rs.exc), exc |-> NoExc]

\* One iteration of the loop of parse_rules on the token it took from the
\* iterator: what is left of the iterator, the rules, the errors, and the
\* exception that is not a ParseError and leaves parse_rules, if any.
parse_rules_iteration(token, rest, rules_, errors_, context) ==
    IF token.type \in {"S", "CDO", "CDC"}
    THEN [rest |-> rest, rules |-> rules_, errors |-> errors_, exc |-> NoExc]
    ELSE IF token.type = "ATKEYWORD"
    THEN at_rule_read(read_at_rule(token, rest), rules_, errors_, context)
    ELSE ruleset_parsed(parse_ruleset(token, rest), rules_, errors_)

\* The loop goes on after the iteration it, unless an exception leaves it.
parse_rules_after(it, context) ==
    IF it.exc # NoExc
    THEN [rules |-> it.rules, errors |-> it.errors, exc |-> it.exc]
    ELSE parse_rules_loop(it.rest, it.rules, it.errors, context)

\* The loop of parse_rules, rules_ being the rules parsed so far.
parse_rules_loop(toks, rules_, errors_, context) ==
    IF toks = <<>>
    THEN [rules |-> rules_, errors |-> errors_, exc |-> NoExc]
    ELSE parse_rules_after(
             parse_rules_iteration(Head(toks), Tail(toks),
                                   rules_, errors_, context),
             context)

parse_rules(toks, errors_, context) ==
    parse_rules_loop(toks, <<>>, errors_, context)

\* `while token and token.type != ';'`
EndsPageDeclaration(token) == ~Truthy(token) \/ token.type = ";"

\* The at-rule of a page block: p is what parse_at_rule gave for it.
page_at_rule_parsed(rest, p, declarations, at_rules) ==
    IF p.exc = NoExc
    THEN parse_page_block_loop(rest, declarations,
                               Append(at_rules, p.result), p.errors)
    ELSE IF p.exc.exc = "ParseError"
    THEN parse_page_block_loop(rest, declarations, at_rules,
                               Append(p.errors, p.exc))
    ELSE [declarations |-> declarations, at_rules |-> at_rules,
          errors |-> p.errors, exc |-> p.exc]

\* A loop that leaves the block after an at-rule that was read.
page_at_rule_read_leaving(r, declarations, at_rules, errors_) ==
    IF r.exc # NoExc
    THEN parse_page_block_loop(r.rest, declarations, at_rules,
                               Append(errors_, r.exc))
    ELSE page_at_rule_parsed(<<>>,
             parse_at_rule(r.rule, at_rules, errors_, "@page"),
             declarations, at_rules)

\* The at-rule branch of the loop of parse_page_block, r being what
\* read_at_rule gave.
page_at_rule_read(r, declarations, at_rules, errors_) ==
    IF r.exc # NoExc
    THEN parse_page_block_loop(r.rest, declarations, at_rules,
                               Append(errors_, r.exc))
    ELSE page_at_rule_parsed(r.rest,
             parse_at_rule(r.rule, at_rules, errors_, "@page"),
             declarations, at_rules)

\* `declarations.append(self.parse_declaration(declaration_tokens))`, or
\* `except ParseError as err: errors.append(err)`.
page_declaration_parsed(d, rest, declarations, at_rules, errors_) ==
    IF d.exc = NoExc
    THEN parse_page_block_loop(rest, Append(declarations, d.declaration),
                               at_rules, errors_)
    ELSE parse_page_block_loop(rest, declarations, at_rules,
                               Append(errors_, d.exc))

\* The declaration branch of the loop of parse_page_block: k is the first
\* position of toks that ends the declaration, or 0. `if declaration_tokens`:
\* nothing is parsed when the first token ends it.
page_declaration_read(toks, k, declarations, at_rules, errors_) ==
    IF k = 1
    THEN parse_page_block_loop(After(toks, 1), declarations, at_rules,
                               errors_)
    ELSE page_declaration_parsed(
             parse_declaration(IF k = 0 THEN toks
                               ELSE SubSeq(toks, 1, k - 1)),
             IF k = 0 THEN <<>> ELSE After(toks, k),
             declarations, at_rules, errors_)

\* The loop of parse_page_block.
parse_page_block_loop(toks, declarations, at_rules, errors_) ==
    IF toks = <<>>
    THEN [declarations |-> declarations, at_rules |-> at_rules,
          errors |-> errors_, exc |-> NoExc]
    ELSE IF Head(toks).type = "ATKEYWORD"
    THEN page_at_rule_read(read_at_rule(Head(toks), Tail(toks)),
                           declarations, at_rules, errors_)
    ELSE IF Head(toks).type # "S"
    THEN page_declaration_read(toks, FirstIndex(toks, EndsPageDeclaration),
                               declarations, at_rules, errors_)
    ELSE parse_page_block_loop(Tail(toks), declarations, at_rules, errors_)

\* _remove_at_charset that does not look at the values of the tokens.
_remove_at_charset_by_type(toks) ==
    IF /\ Len(toks) >= 4
       /\ <<toks[1].type, toks[2].type, toks[3].type, toks[4].type>>
              = <<"ATKEYWORD", "S", "STRING", ";">>
    THEN After(toks, 4)
    ELSE toks

\* _remove_at_charset on the regrouped tokens.
_remove_at_charset(toks) ==
    IF /\ Len(toks) >= 4
       /\ <<toks[1].type, toks[2].type, toks[3].type, toks[4].type>>
              = <<"ATKEYWORD", "S", "STRING", ";">>
       /\ toks[1].value = "@charset" /\ toks[2].value = " "
       /\ StartsWithDoubleQuote(toks[3].css_start)
    THEN After(toks, 4)
    ELSE toks

(***************************************************************************)
(* Inputs: stylesheets and style attributes, as flat token streams         *)
(***************************************************************************)

kS         == K("S", " ", " ")
kA         == K("IDENT", "a", "a")
kB         == K("IDENT", "B", "B")
kPrint     == K("IDENT", "PRINT", "PRINT")
kImportant == K("IDENT", "important", "important")
kFirst     == K("IDENT", "first", "first")
kStr       == K("STRING", "\"u\"", "u")
kColon     == K(":", ":", ":")
kSemi      == K(";", ";", ";")
kComma     == K("DELIM", ",", ",")
kBang      == K("DELIM", "!", "!")
kLB        == K("{", "{", "{")
kRB        == K("}", "}", "}")
kLP        == K("(", "(", "(")
kRP        == K(")", ")", ")")
kLK        == K("[", "[", "[")
kRK        == K("]", "]", "]")
kCDO       == K("CDO", "<!--", "<!--")
kImport    == K("ATKEYWORD", "@import", "@import")
kIMPORT    == K("ATKEYWORD", "@IMPORT", "@IMPORT")
kMedia     == K("ATKEYWORD", "@media", "@media")
kPage      == K("ATKEYWORD", "@page", "@page")
kCharset   == K("ATKEYWORD", "@charset", "@charset")
kFoo       == K("ATKEYWORD", "@foo", "@foo")

\* Candidate statements, valid and invalid.
RulesetStatements ==
    {<<kA, kLB, kRB>>,                                  \* a{}
     <<kB, kS, kLB, kB, kColon, kA, kRB>>,              \* B {B:a}
     <<kA, kLB, kA, kS, kSemi, kA, kColon, kS, kA,
       kBang, kImportant, kRB>>,                        \* a{a ;a: a!important}
     <<kA, kCDO, kLB, kA, kColon, kA, kRB>>,            \* a<!--{a:a}
     <<kA, kRP, kLB, kA, kRB>>,                         \* a){a}
     <<kA, kSemi>>,                                     \* a;
     <<kLB, kA, kColon, kLP, kRK, kRP, kRB>>}           \* {a:(])}

ImportStatements ==
    {<<kImport, kS, kStr, kSemi>>,                      \* @import "u";
     <<kIMPORT, kS, kStr, kS, kA, kComma, kS, kPrint,
       kSemi>>,                                         \* @IMPORT "u" a, PRINT;
     <<kImport, kSemi>>,                                \* @import;
     <<kImport, kS, kA, kSemi>>,                        \* @import a;
     <<kImport, kS, kStr, kS, kLB, kRB>>,               \* @import "u" {}
     <<kImport, kCDO, kSemi>>}                          \* @import<!--;

MediaStatements ==
    {<<kMedia, kS, kA, kLB, kA, kLB, kA, kColon, kA, kRB,
       kRB>>,                                           \* @media a{a{a:a}}
     <<kMedia, kSemi>>,                                 \* @media;
     <<kMedia, kS, kLB, kRB>>,                          \* @media {}
     <<kMedia, kS, kA, kSemi>>,                         \* @media a;
     <<kMedia, kS, kA, kComma, kS, kLB, kRB>>,          \* @media a, {}
     <<kMedia, kS, kPrint, kLB, kImport, kS, kStr, kSemi,
       kPage, kLB, kRB, kMedia, kSemi, kA, kLB, kA, kRB,
       kRB>>,                          \* @media PRINT{@import "u";@page{}@media;a{a}}
     <<kMedia, kS, kA, kLK, kRK, kLB, kRB>>}            \* @media a[]{}

PageStatements ==
    {<<kPage, kLB, kRB>>,                               \* @page{}
     <<kPage, kS, kColon, kFirst, kS, kLB, kA, kColon,
       kA, kRB>>,                                       \* @page :first {a:a}
     <<kPage, kSemi>>,                                  \* @page;
     <<kPage, kS, kA, kLB, kRB>>,                       \* @page a{}
     <<kPage, kLB, kA, kColon, kA, kSemi, kFoo, kLB, kRB,
       kB, kColon, kA, kRB>>,                           \* @page{a:a;@foo{}B:a}
     <<kPage, kLB, kA, kColon, kA, kLK, kRK, kA, kSemi,
       kA, kRB>>}                                       \* @page{a:a[]a;a}

OtherStatements ==
    {<<kCharset, kS, kStr, kSemi>>,                     \* @charset "u";
     <<kFoo, kSemi>>,                                   \* @foo;
     <<kFoo, kS, kLB, kA, kRB>>,                        \* @foo {a}
     <<kFoo, kS, kColon>>,                              \* @foo :
     <<kFoo, kCDO, kSemi>>,                             \* @foo<!--;
     <<kRB>>,                                           \* }
     <<kS, kCDO>>,                                      \*  <!--
     <<kCDO>>}                                          \* <!--

Statements ==
    RulesetStatements \cup ImportStatements \cup MediaStatements
        \cup PageStatements \cup OtherStatements

\* Most statements in a stylesheet.
MaxStatements == 2

RECURSIVE Concat(_)
Concat(seqs) ==
    IF seqs = <<>> THEN <<>> ELSE Head(seqs) \o Concat(Tail(seqs))

Stylesheets ==
    {Positioned(Concat(ss)) : ss \in SeqsUpTo(Statements, MaxStatements)}

\* Candidate parts of a declaration list, between the ';'.
Segments ==
    {<<>>,                                              \* (empty)
     <<kS>>,                                            \* white space
     <<kS, kB, kColon, kS, kA, kS>>,                    \*  B: a
     <<kA, kColon, kA, kS, kA, kS, kBang, kS,
       kImportant>>,                                    \* a:a a ! important
     <<kA, kS>>,                                        \* a
     <<kA, kColon, kS>>,                                \* a:
     <<kA, kColon, kBang, kImportant>>,                 \* a:!important
     <<kA, kBang, kA>>,                                 \* a!a
     <<kCDO, kColon, kA>>,                              \* <!--:a
     <<kA, kColon, kLP, kRK, kRP>>,                     \* a:(])
     <<kA, kColon, kLB, kFoo, kSemi, kRB>>}             \* a:{@foo;}

\* Most ';' in a style attribute.
MaxSemicolons == 2

RECURSIVE Join(_)
Join(segs) ==
    IF Len(segs) <= 1 THEN Concat(segs)
    ELSE Head(segs) \o <<kSemi>> \o Join(Tail(segs))

StyleAttrs ==
    {Positioned(Join(segs)) :
        segs \in UNION {[1..k -> Segments] : k \in 1..(MaxSemicolons + 1)}}

(***************************************************************************)
(* The parser entry points: parse_stylesheet and parse_style_attr          *)
(***************************************************************************)

Init ==
    /\ \/ /\ pc = "parse_stylesheet"
          /\ flat \in Stylesheets
          /\ encoding \in {None, "utf8"}
       \/ /\ pc = "parse_style_attr"
          /\ flat \in StyleAttrs
          /\ encoding = None
    /\ tokens = <<>> /\ rules = <<>> /\ errors = <<>>
    /\ raised = None /\ result = NoResult
    /\ css_bytes = <<>> /\ hints = <<>> /\ css_unicode = <<>>
    /\ entry = pc

\* `if encoding:`
EncodingGiven(encoding_) == encoding_ # None /\ encoding_ # ""

\* parse_stylesheet, up to the call of parse_rules.
ParseStylesheet ==
    /\ pc = "parse_stylesheet"
    /\ tokens' = IF EncodingGiven(encoding)
                 THEN _remove_at_charset(regroup(flat))
                 ELSE regroup(flat)
    /\ errors' = <<>>
    /\ rules' = <<>>
    /\ pc' = "parse_rules"
    /\ UNCHANGED <<flat, encoding, raised, result,
                   css_bytes, hints, css_unicode, entry>>

\* What one iteration of the loop leaves; an exception that is not a
\* ParseError leaves parse_rules and parse_stylesheet.
IterationDone(it) ==
    /\ tokens' = it.rest
    /\ rules' = it.rules
    /\ errors' = it.errors
    /\ raised' = it.exc.exc
    /\ pc' = IF it.exc = NoExc THEN "parse_rules" ELSE "raised"

\* One iteration of the loop of parse_rules in the stylesheet context.
ParseRulesStep ==
    /\ pc = "parse_rules"
    /\ tokens # <<>>
    /\ IterationDone(parse_rules_iteration(Head(tokens), Tail(tokens),
                                           rules, errors, "stylesheet"))
    /\ UNCHANGED <<flat, encoding, result, css_bytes, hints, css_unicode, entry>>

\* parse_rules returns; parse_stylesheet returns the Stylesheet.
ReturnStylesheet ==
    /\ pc = "parse_rules"
    /\ tokens = <<>>
    /\ result' = Stylesheet(rules, errors, encoding)
    /\ pc' = "done"
    /\ UNCHANGED <<flat, encoding, tokens, rules, errors, raised,
                   css_bytes, hints, css_unicode, entry>>

\* parse_style_attr.
ParseStyleAttr ==
    /\ pc = "parse_style_attr"
    /\ result' = parse_declaration_list(regroup(flat))
    /\ pc' = "done"
    /\ UNCHANGED <<flat, encoding, tokens, rules, errors, raised,
                   css_bytes, hints, css_unicode, entry>>

Next == ParseStylesheet \/ ParseRulesStep \/ ReturnStylesheet \/ ParseStyleAttr

Spec == Init /\ [][Next]_vars

(***************************************************************************)
(* Reference: the statements of the grammar over the top-level tokens      *)
(***************************************************************************)

\* parse_stylesheet has returned a Stylesheet.
IsSheet == pc = "done" /\ "rules" \in DOMAIN result

\* parse_style_attr has returned (declarations, errors).
IsStyleAttr == pc = "done" /\ "declarations" \in DOMAIN result

\* Position of the last token of the statement that starts at toks[1]: an
\* at-rule runs to its first ';' or block, a ruleset to its first block.
StatementEnd(toks) ==
    IF toks[1].type = "ATKEYWORD"
    THEN LET j == FirstIndex(Tail(toks), LAMBDA t : t.type \in {"{", ";"}) IN
         IF j = 0 THEN Len(toks) ELSE j + 1
    ELSE LET j == FirstIndex(toks, LAMBDA t : t.type = "{") IN
         IF j = 0 THEN Len(toks) ELSE j

\* The first token of every statement, in source order.
RECURSIVE StatementStarts(_)
StatementStarts(toks) ==
    IF toks = <<>> THEN <<>>
    ELSE IF Head(toks).type \in {"S", "CDO", "CDC"}
    THEN StatementStarts(Tail(toks))
    ELSE <<Head(toks)>> \o StatementStarts(After(toks, StatementEnd(toks)))

IsImportStart(token) ==
    token.type = "ATKEYWORD" /\ Lower(token.value) = "@import"

IsCharsetOrImportStart(token) ==
    token.type = "ATKEYWORD" /\ Lower(token.value) \in {"@charset", "@import"}

NotAllowedAfter ==
    {"@import rule not allowed after a ruleset",
     "@import rule not allowed after an @page rule",
     "@import rule not allowed after an @media rule"}

(***************************************************************************)
(* C1                                                                      *)
(***************************************************************************)

\* C1: parse_stylesheet and parse_style_attr never raise: whatever the
\* input, every problem of grammar ends up in the error list.
ParseNeverRaises == pc # "raised" /\ raised = None

(***************************************************************************)
(* C2                                                                      *)
(***************************************************************************)

\* Every statement of the source that starts before the column is an
\* @charset or an @import.
OnlyCharsetOrImportBefore(starts, column) ==
    \A k \in 1..Len(starts) :
        starts[k].column < column => IsCharsetOrImportStart(starts[k])

\* C2 (as stated): an ImportRule is in Stylesheet.rules only if every
\* statement before it in the source is an @charset or an @import, and an
\* @import after any other statement is dropped with an '@import rule not
\* allowed after ...' error.
ImportAfterCharsetOrImportStatementsOnly ==
    IsSheet =>
        LET starts == StatementStarts(regroup(flat)) IN
        /\ \A i \in 1..Len(result.rules) :
               result.rules[i].at_keyword = "@import" =>
                   OnlyCharsetOrImportBefore(starts, result.rules[i].column)
        /\ \A k \in 1..Len(starts) :
               (/\ IsImportStart(starts[k])
                /\ ~OnlyCharsetOrImportBefore(starts, starts[k].column)) =>
                   /\ \A i \in 1..Len(result.rules) :
                          result.rules[i].column # starts[k].column
                   /\ \E e \in 1..Len(result.errors) :
                          result.errors[e].reason \in NotAllowedAfter

\* parse_rules is about to read an @import of the stylesheet context.
ImportStep ==
    pc = "parse_rules" /\ tokens # <<>> /\ IsImportStart(Head(tokens))

\* The at-rule that starts at toks[1] is terminated and its head is made of
\* tokens of the 'any' production.
ReadableAtRule(toks) ==
    LET e == StatementEnd(toks) IN
    /\ toks[e].type \in {"{", ";"}
    /\ validate_any_each(SubSeq(toks, 2, e - 1), "at-rule head") = NoExc

\* No @import among the rules of a MediaRule.
NoImportInMedia(rules_) ==
    \A i \in 1..Len(rules_) :
        rules_[i].at_keyword = "@media" =>
            \A j \in 1..Len(rules_[i].rules) :
                rules_[i].rules[j].at_keyword # "@import"

\* C2 (amended): an @import is accepted only in the stylesheet context and
\* only when every rule accepted so far is an @import; dropped statements
\* before it do not count.  After an accepted rule of another kind the
\* @import is dropped, and when the at-rule is readable the error is
\* '@import rule not allowed after ...', at the first such rule.
ImportAfterAcceptedImportsOnly ==
    [][/\ NoImportInMedia(rules')
       /\ ImportStep =>
            LET others == {i \in 1..Len(rules) :
                               rules[i].at_keyword # "@import"}
            IN  IF others # {}
                THEN LET first == rules[Min(others)] IN
                     /\ rules' = rules
                     /\ Len(errors') = Len(errors) + 1
                     /\ ReadableAtRule(tokens) =>
                            /\ errors'[Len(errors')].reason \in NotAllowedAfter
                            /\ errors'[Len(errors')].column = first.column
                            /\ errors'[Len(errors')].reason =
                                 "@import rule not allowed after " \o
                                 (IF first.at_keyword = None THEN "a ruleset"
                                  ELSE "an " \o first.at_keyword \o " rule")
                ELSE rules' # rules =>
                         /\ Len(rules') = Len(rules) + 1
                         /\ rules'[Len(rules')].at_keyword = "@import"
                         /\ rules'[Len(rules')].column = Head(tokens).column
      ]_vars

\* An @import accepted after a dropped '@foo' statement.
ImportAfterDroppedWitness ==
    /\ pc = "parse_rules"
    /\ Len(rules) = 1 /\ rules[1].at_keyword = "@import"
    /\ Len(errors) = 1
    /\ errors[1].reason = "unknown at-rule in stylesheet context: @foo"
    /\ errors[1].column < rules[1].column

(***************************************************************************)
(* C3                                                                      *)
(***************************************************************************)

\* The segments between the top-level ';' of a declaration list.
RECURSIVE SegmentsBetweenSemicolons(_, _)
SegmentsBetweenSemicolons(toks, segment) ==
    IF toks = <<>> THEN <<segment>>
    ELSE IF Head(toks).type = ";"
    THEN <<segment>> \o SegmentsBetweenSemicolons(Tail(toks), <<>>)
    ELSE SegmentsBetweenSemicolons(Tail(toks), Append(segment, Head(toks)))

\* Those that are not empty and not only white space.
NonEmptySegments(toks) ==
    SelectSeq(SegmentsBetweenSemicolons(toks, <<>>),
              LAMBDA seg : \E k \in 1..Len(seg) : seg[k].type # "S")

\* What the segments give when each is parsed alone, put end to end.
RECURSIVE EachAlone(_)
EachAlone(segs) ==
    IF segs = <<>> THEN [declarations |-> <<>>, errors |-> <<>>]
    ELSE LET one  == parse_declaration_list(Head(segs))
             more == EachAlone(Tail(segs))
         IN  [declarations |-> one.declarations \o more.declarations,
              errors |-> one.errors \o more.errors]

\* C3: every segment that is not white space gives exactly one Declaration
\* or exactly one ParseError, and the list parsed as a whole gives what its
\* segments give when parsed alone: declarations plus errors count the
\* non-empty segments.
DeclarationPerSegment ==
    IsStyleAttr =>
        LET segs == NonEmptySegments(regroup(flat)) IN
        /\ \A k \in 1..Len(segs) :
               LET one == parse_declaration_list(segs[k]) IN
               Len(one.declarations) + Len(one.errors) = 1
        /\ Len(result.declarations) + Len(result.errors) = Len(segs)
        /\ result.declarations = EachAlone(segs).declarations
        /\ result.errors = EachAlone(segs).errors

\* A failing segment, then a white space segment, then a declaration.
DeclarationPerSegmentWitness ==
    /\ IsStyleAttr
    /\ Len(result.declarations) = 1 /\ Len(result.errors) = 1
    /\ result.errors[1].column < result.declarations[1].column
    /\ Len(SegmentsBetweenSemicolons(regroup(flat), <<>>)) = 3

(***************************************************************************)
(* C4                                                                      *)
(***************************************************************************)

\* parse_rules reads a statement of the stylesheet and no rule comes of it.
DroppedStep ==
    /\ pc = "parse_rules" /\ pc' = "parse_rules"
    /\ tokens # <<>>
    /\ Head(tokens).type \notin {"S", "CDO", "CDC"}
    /\ Len(rules') = Len(rules)

\* C4: a dropped statement takes from the input its own tokens only, up to
\* its block or its ';', leaves the rules as they were and records one
\* error; what follows is parsed as it would be without the statement.
DroppedStatementOnly ==
    [][DroppedStep =>
          /\ tokens' = After(tokens, StatementEnd(tokens))
          /\ rules' = rules
          /\ Len(errors') = Len(errors) + 1
          /\ SubSeq(errors', 1, Len(errors)) = errors
          /\ parse_rules_loop(tokens', rules', errors', "stylesheet").rules
               = parse_rules_loop(After(tokens, StatementEnd(tokens)),
                                  rules, errors, "stylesheet").rules
      ]_vars

\* A ruleset parsed after a statement dropped for its selector.
DroppedStatementWitness ==
    /\ pc = "parse_rules"
    /\ Len(errors) = 1
    /\ errors[1].reason = "unexpected CDO token in selector"
    /\ Len(rules) = 1 /\ rules[1].at_keyword = None
    /\ errors[1].column < rules[1].column

(***************************************************************************)
(* Decoding bytes to text (tinycss/decoding.py, modelled from the design   *)
(* document: section 4.1, "Encoding detector")                             *)
(*                                                                         *)
(* A byte string is a sequence of integers in 0..255, a text a sequence of *)
(* code points.  A decoder gives [ok, text]: ok is FALSE where the codec   *)
(* raises UnicodeDecodeError.                                              *)
(***************************************************************************)

Failed == [ok |-> FALSE, text |-> <<>>]

Decoded(text) == [ok |-> TRUE, text |-> text]

\* The code point c, then what the rest of the input decodes to.
Then(c, rest) == IF rest.ok THEN Decoded(<<c>> \o rest.text) ELSE Failed

IsContinuation(b) == b \in 128..191

IsSurrogate(c) == c \in 55296..57343

\* The 'utf-8' codec: sequences of one to four bytes, no overlong form, no
\* surrogate, nothing above U+10FFFF.
RECURSIVE utf_8_decode(_)
utf_8_decode(b) ==
    IF b = <<>> THEN Decoded(<<>>)
    ELSE IF b[1] < 128
    THEN Then(b[1], utf_8_decode(Tail(b)))
    ELSE IF b[1] \in 194..223 /\ Len(b) >= 2 /\ IsContinuation(b[2])
    THEN Then((b[1] - 192) * 64 + (b[2] - 128),
              utf_8_decode(SubSeq(b, 3, Len(b))))
    ELSE IF /\ b[1] \in 224..239 /\ Len(b) >= 3
            /\ IsContinuation(b[2]) /\ IsContinuation(b[3])
            /\ (b[1] - 224) * 4096 + (b[2] - 128) * 64 >= 2048
            /\ ~IsSurrogate((b[1] - 224) * 4096 + (b[2] - 128) * 64
                            + (b[3] - 128))
    THEN Then((b[1] - 224) * 4096 + (b[2] - 128) * 64 + (b[3] - 128),
              utf_8_decode(SubSeq(b, 4, Len(b))))
    ELSE IF /\ b[1] \in 240..244 /\ Len(b) >= 4
            /\ IsContinuation(b[2]) /\ IsContinuation(b[3])
            /\ IsContinuation(b[4])
            /\ (b[1] - 240) * 262144 + (b[2] - 128) * 4096
                   \in 65536..1114111
    THEN Then((b[1] - 240) * 262144 + (b[2] - 128) * 4096
                  + (b[3] - 128) * 64 + (b[4] - 128),
              utf_8_decode(SubSeq(b, 5, Len(b))))
    ELSE Failed

\* The 'iso-8859-1' codec: every byte is the code point of its value.
iso_8859_1_decode(b) == Decoded([i \in 1..Len(b) |-> b[i]])

\* The 16-bit unit at the head of b.
Unit16(b, big) == IF big THEN b[1] * 256 + b[2] ELSE b[2] * 256 + b[1]

\* The 'utf-16-be' and 'utf-16-le' codecs.
RECURSIVE utf_16_decode(_, _)
utf_16_decode(b, big) ==
    IF b = <<>> THEN Decoded(<<>>)
    ELSE IF Len(b) < 2 THEN Failed
    ELSE IF ~IsSurrogate(Unit16(b, big))
    THEN Then(Unit16(b, big), utf_16_decode(SubSeq(b, 3, Len(b)), big))
    ELSE IF /\ Unit16(b, big) \in 55296..56319 /\ Len(b) >= 4
            /\ Unit16(SubSeq(b, 3, 4), big) \in 56320..57343
    THEN Then(65536 + (Unit16(b, big) - 55296) * 1024
                    + (Unit16(SubSeq(b, 3, 4), big) - 56320),
              utf_16_decode(SubSeq(b, 5, Len(b)), big))
    ELSE Failed

\* The 32-bit unit at the head of b: its most significant byte, which is 0
\* in every code point, and the value of its three other bytes.
High8(b, big) == IF big THEN b[1] ELSE b[4]

Low24(b, big) ==
    IF big THEN (b[2] * 256 + b[3]) * 256 + b[4]
    ELSE (b[3] * 256 + b[2]) * 256 + b[1]

\* The 'utf-32-be' and 'utf-32-le' codecs.
RECURSIVE utf_32_decode(_, _)
utf_32_decode(b, big) ==
    IF b = <<>> THEN Decoded(<<>>)
    ELSE IF Len(b) < 4 THEN Failed
    ELSE IF /\ High8(b, big) = 0 /\ Low24(b, big) <= 1114111
            /\ ~IsSurrogate(Low24(b, big))
    THEN Then(Low24(b, big), utf_32_decode(SubSeq(b, 5, Len(b)), big))
    ELSE Failed

\* The codec of an encoding name, looked up with aliases and without
\* regard to case; None for a name that is not known.
Codec(name) ==
    CASE name \in {"utf8", "UTF8", "utf-8", "UTF-8"} -> "utf-8"
      [] name \in {"latin1", "LATIN1", "iso-8859-1", "ISO-8859-1"}
             -> "iso-8859-1"
      [] name \in {"utf-16-be", "UTF-16-BE"} -> "utf-16-be"
      [] name \in {"utf-16-le", "UTF-16-LE"} -> "utf-16-le"
      [] name \in {"utf-32-be", "UTF-32-BE"} -> "utf-32-be"
      [] name \in {"utf-32-le", "UTF-32-LE"} -> "utf-32-le"
      [] OTHER -> None

\* Decoding the whole of b with a codec.
codec_decode(b, codec) ==
    CASE codec = "utf-8" -> utf_8_decode(b)
      [] codec = "iso-8859-1" -> iso_8859_1_decode(b)
      [] codec = "utf-16-be" -> utf_16_decode(b, TRUE)
      [] codec = "utf-16-le" -> utf_16_decode(b, FALSE)
      [] codec = "utf-32-be" -> utf_32_decode(b, TRUE)
      [] codec = "utf-32-le" -> utf_32_decode(b, FALSE)
      [] OTHER -> Failed

\* The outcome of a candidate: whether it decoded, the text and its name.
Named(attempt, name) ==
    [ok |-> attempt.ok, text |-> attempt.text, encoding |-> name]

\* One candidate is tried: a failure when it is absent (None), when its
\* name is not known or when the bytes do not decode as a whole.
try_encoding(b, name) == Named(codec_decode(b, Codec(name)), name)

StartsWith(b, prefix) ==
    Len(b) >= Len(prefix) /\ SubSeq(b, 1, Len(prefix)) = prefix

\* The byte order marks and their encodings, the longest marks first.
BOMS ==
    <<[mark |-> <<0, 0, 254, 255>>, encoding |-> "UTF-32-BE"],
      [mark |-> <<255, 254, 0, 0>>, encoding |-> "UTF-32-LE"],
      [mark |-> <<239, 187, 191>>, encoding |-> "UTF-8"],
      [mark |-> <<254, 255>>, encoding |-> "UTF-16-BE"],
      [mark |-> <<255, 254>>, encoding |-> "UTF-16-LE"]>>

\* The position in BOMS of the mark the bytes begin with, or 0.
DetectBOM(b) == FirstIndex(BOMS, LAMBDA m : StartsWith(b, m.mark))

\* Step 1: the encoding of the byte order mark decodes what follows the
\* mark, so that the mark is not part of the text.
decode_with_bom(b, m) ==
    IF m = 0 THEN Named(Failed, None)
    ELSE Named(codec_decode(After(b, Len(BOMS[m].mark)),
                            Codec(BOMS[m].encoding)),
               BOMS[m].encoding)

\* The printable ASCII characters, from the space (32) to '~' (126).
Printable ==
    <<" ", "!", "\"", "#", "$", "%", "&", "'", "(", ")", "*", "+", ",", "-",
      ".", "/", "0", "1", "2", "3", "4", "5", "6", "7", "8", "9", ":", ";",
      "<", "=", ">", "?", "@", "A", "B", "C", "D", "E", "F", "G", "H", "I",
      "J", "K", "L", "M", "N", "O", "P", "Q", "R", "S", "T", "U", "V", "W",
      "X", "Y", "Z", "[", "\\", "]", "^", "_", "<U+60>", "a", "b", "c", "d", "e",
      "f", "g", "h", "i", "j", "k", "l", "m", "n", "o", "p", "q", "r", "s",
      "t", "u", "v", "w", "x", "y", "z", "{", "|", "}", "~">>

HexDigits ==
    <<"0", "1", "2", "3", "4", "5", "6", "7", "8", "9",
      "A", "B", "C", "D", "E", "F">>

RECURSIVE Hex(_)
Hex(n) ==
    IF n < 16 THEN HexDigits[n + 1]
    ELSE Hex(n \div 16) \o HexDigits[(n % 16) + 1]

\* The character of a code point as a string; the grave accent and every
\* character that is not printable ASCII are written <U+hex>.
Chr(c) ==
    IF c \in 32..126 THEN Printable[c - 31] ELSE "<U+" \o Hex(c) \o ">"

\* A sequence of code points as a string.
RECURSIVE Text(_)
Text(cs) == IF cs = <<>> THEN "" ELSE Chr(Head(cs)) \o Text(Tail(cs))

\* The bytes of '@charset "'.
AtCharsetQuote == <<64, 99, 104, 97, 114, 115, 101, 116, 32, 34>>

\* The name between the quotes.
QuotedName(after_quote, closing) ==
    IF closing = 0 THEN None ELSE Text(SubSeq(after_quote, 1, closing - 1))

\* Step 3: the name declared by an '@charset "' at the very start of the
\* bytes, up to the next double quote; None when there is none.
DeclaredName(b) ==
    IF StartsWith(b, AtCharsetQuote)
    THEN QuotedName(After(b, Len(AtCharsetQuote)),
                    FirstIndex(After(b, Len(AtCharsetQuote)),
                               LAMBDA x : x = 34))
    ELSE None

\* The first candidate that decoded.
first_success(attempt, otherwise) == IF attempt.ok THEN attempt ELSE otherwise

\* decode with the protocol hint tried before the byte order mark.
decode_protocol_first(css_bytes_, protocol_encoding, linking_encoding, document_encoding) ==
    first_success(try_encoding(css_bytes_, protocol_encoding),
    first_success(decode_with_bom(css_bytes_, DetectBOM(css_bytes_)),
    first_success(try_encoding(css_bytes_, DeclaredName(css_bytes_)),
    first_success(try_encoding(css_bytes_, linking_encoding),
    first_success(try_encoding(css_bytes_, document_encoding),
    first_success(try_encoding(css_bytes_, "UTF-8"),
                  try_encoding(css_bytes_, "ISO-8859-1")))))))

\* decode: the byte order mark, the protocol hint, the in-band @charset,
\* the linking hint, the document hint, UTF-8 and at last ISO-8859-1; the
\* first that decodes the whole input gives the text and the encoding.
\* ok is FALSE where the UnicodeDecodeError goes to the caller.
decode(css_bytes_, protocol_encoding, linking_encoding, document_encoding) ==
    first_success(decode_with_bom(css_bytes_, DetectBOM(css_bytes_)),
    first_success(try_encoding(css_bytes_, protocol_encoding),
    first_success(try_encoding(css_bytes_, DeclaredName(css_bytes_)),
    first_success(try_encoding(css_bytes_, linking_encoding),
    first_success(try_encoding(css_bytes_, document_encoding),
    first_success(try_encoding(css_bytes_, "UTF-8"),
                  try_encoding(css_bytes_, "ISO-8859-1")))))))

(***************************************************************************)
(* tokenize_flat (tinycss/tokenizer.py): white space, identifiers,         *)
(* functions, at-keywords, strings, comments and single characters, with   *)
(* their escapes, lines and columns.  The texts it is given hold no digit, *)
(* sign, '.', '#' or '<' where a token starts and no 'url(' or 'u+', so    *)
(* that the regexps of the numbers, HASH, CDO, CDC, URI and UNICODE-RANGE  *)
(* match nowhere.                                                          *)
(***************************************************************************)

\* S: [ \t\r\n\f]
IsSpace(c) == c \in {32, 9, 13, 10, 12}

\* The characters of nl: \n, \r, \f.
IsNewline(c) == c \in {10, 13, 12}

\* [0-9a-f], matched without regard to case.
IsHex(c) == c \in 48..57 \/ c \in 97..102 \/ c \in 65..70

\* nl at pos, \n|\r\n|\r|\f: the position after it, or 0.
NewlineEnd(css_source, pos) ==
    IF pos > Len(css_source) \/ ~IsNewline(css_source[pos]) THEN 0
    ELSE IF /\ css_source[pos] = 13 /\ pos < Len(css_source)
            /\ css_source[pos + 1] = 10
    THEN pos + 2
    ELSE pos + 1

\* The position after the hex digits that start at pos, at most n of them.
RECURSIVE HexEnd(_, _, _)
HexEnd(css_source, pos, n) ==
    IF n > 0 /\ pos <= Len(css_source) /\ IsHex(css_source[pos])
    THEN HexEnd(css_source, pos + 1, n - 1)
    ELSE pos

\* The position after the optional white space that ends a unicode escape:
\* (\r\n|[ \n\r\t\f])?
AfterHex(css_source, pos) ==
    IF pos > Len(css_source) \/ ~IsSpace(css_source[pos]) THEN pos
    ELSE IF NewlineEnd(css_source, pos) # 0
    THEN NewlineEnd(css_source, pos)
    ELSE pos + 1

\* unicode at pos, a backslash, one to six hex digits and the optional
\* white space: the position after it, or 0.
UnicodeEscapeEnd(css_source, pos) ==
    IF /\ pos < Len(css_source) /\ css_source[pos] = 92
       /\ IsHex(css_source[pos + 1])
    THEN AfterHex(css_source, HexEnd(css_source, pos + 1, 6))
    ELSE 0

\* escape at pos, {unicode}|\\[^\n\r\f0-9a-f]: the position after it, or 0.
EscapeEnd(css_source, pos) ==
    IF pos >= Len(css_source) \/ css_source[pos] # 92 THEN 0
    ELSE IF IsHex(css_source[pos + 1])
    THEN UnicodeEscapeEnd(css_source, pos)
    ELSE IF IsNewline(css_source[pos + 1]) THEN 0
    ELSE pos + 2

\* [_a-z], matched without regard to case, or nonascii [^\0-\237]
IsNmStart(c) == c = 95 \/ c \in 97..122 \/ c \in 65..90 \/ c > 159

\* [_a-z0-9-] or nonascii
IsNmChar(c) == IsNmStart(c) \/ c \in 48..57 \/ c = 45

\* nmstart at pos: the position after it, or 0.
NmStartEnd(css_source, pos) ==
    IF pos > Len(css_source) THEN 0
    ELSE IF IsNmStart(css_source[pos]) THEN pos + 1
    ELSE EscapeEnd(css_source, pos)

\* nmchar at pos: the position after it, or 0.
NmCharEnd(css_source, pos) ==
    IF pos > Len(css_source) THEN 0
    ELSE IF IsNmChar(css_source[pos]) THEN pos + 1
    ELSE EscapeEnd(css_source, pos)

\* The position after the white space that starts at pos.
RECURSIVE SpaceEnd(_, _)
SpaceEnd(css_source, pos) ==
    IF pos <= Len(css_source) /\ IsSpace(css_source[pos])
    THEN SpaceEnd(css_source, pos + 1)
    ELSE pos

\* The position after the nmchar* that starts at pos.
RECURSIVE NameEnd(_, _)
NameEnd(css_source, pos) ==
    IF NmCharEnd(css_source, pos) # 0
    THEN NameEnd(css_source, NmCharEnd(css_source, pos))
    ELSE pos

\* ident, [-]?{nmstart}{nmchar}*, at pos: the position after it, or 0.
IdentEnd(css_source, pos) ==
    IF NmStartEnd(css_source, pos) # 0
    THEN NameEnd(css_source, NmStartEnd(css_source, pos))
    ELSE IF /\ pos < Len(css_source) /\ css_source[pos] = 45
            /\ NmStartEnd(css_source, pos + 1) # 0
    THEN NameEnd(css_source, NmStartEnd(css_source, pos + 1))
    ELSE 0

\* ([^\n\r\f\\"]|\\{nl}|{escape})* from pos on, for the given quote: the
\* position of the first character that a string cannot hold: its closing
\* quote, an unescaped newline, a backslash that ends the text, or the end
\* of the text.
RECURSIVE StringBodyEnd(_, _, _)
StringBodyEnd(css_source, pos, quote) ==
    IF pos > Len(css_source) THEN pos
    ELSE IF css_source[pos] = 92
    THEN IF NewlineEnd(css_source, pos + 1) # 0
         THEN StringBodyEnd(css_source, NewlineEnd(css_source, pos + 1),
                            quote)
         ELSE IF EscapeEnd(css_source, pos) # 0
         THEN StringBodyEnd(css_source, EscapeEnd(css_source, pos), quote)
         ELSE pos
    ELSE IF css_source[pos] = quote \/ IsNewline(css_source[pos])
    THEN pos
    ELSE StringBodyEnd(css_source, pos + 1, quote)

\* The position of the first '*/' from pos on, or 0.
RECURSIVE CommentClose(_, _)
CommentClose(css_source, pos) ==
    IF pos >= Len(css_source) THEN 0
    ELSE IF css_source[pos] = 42 /\ css_source[pos + 1] = 47 THEN pos
    ELSE CommentClose(css_source, pos + 1)

\* The position of the last '*' from pos on, or 0.
LastStar(css_source, pos) ==
    Max0({i \in pos..Len(css_source) : css_source[i] = 42})

\* The characters that are a token type of their own.
Punctuation == {58, 59, 123, 125, 40, 41, 91, 93}

\* A match: the token type and the position after the matched text.
Match(type_, next_pos) == [type |-> type_, next_pos |-> next_pos]

\* string or, where the closing quote is missing, badstring, which takes
\* the backslash that ends the text.
MatchString(css_source, pos, body_end) ==
    IF body_end <= Len(css_source) /\ css_source[body_end] = css_source[pos]
    THEN Match("STRING", body_end + 1)
    ELSE IF body_end <= Len(css_source) /\ css_source[body_end] = 92
    THEN Match("BAD_STRING", body_end + 1)
    ELSE Match("BAD_STRING", body_end)

\* COMMENT, a '/*' up to the first '*/' after it, or BAD_COMMENT where
\* there is none: badcomment1 runs to the last '*' after the '/*',
\* badcomment2 to the end of a text that has no such '*'.
MatchComment(css_source, pos, close, star) ==
    IF close # 0 THEN Match("COMMENT", close + 2)
    ELSE IF star # 0 THEN Match("BAD_COMMENT", star + 1)
    ELSE Match("BAD_COMMENT", Len(css_source) + 1)

\* FUNCTION, an ident and '(', or IDENT.
MatchIdent(css_source, ident_end) ==
    IF ident_end <= Len(css_source) /\ css_source[ident_end] = 40
    THEN Match("FUNCTION", ident_end + 1)
    ELSE Match("IDENT", ident_end)

\* `for type_, regexp in compiled_token`: the first regexp that matches at
\* pos, DELIM for a character that none matches.
FirstMatch(css_source, pos) ==
    IF IsSpace(css_source[pos])
    THEN Match("S", SpaceEnd(css_source, pos))
    ELSE IF IdentEnd(css_source, pos) # 0
    THEN MatchIdent(css_source, IdentEnd(css_source, pos))
    ELSE IF css_source[pos] = 64 /\ IdentEnd(css_source, pos + 1) # 0
    THEN Match("ATKEYWORD", IdentEnd(css_source, pos + 1))
    ELSE IF css_source[pos] \in {34, 39}
    THEN MatchString(css_source, pos,
             StringBodyEnd(css_source, pos + 1, css_source[pos]))
    ELSE IF /\ css_source[pos] = 47 /\ pos < Len(css_source)
            /\ css_source[pos + 1] = 42
    THEN MatchComment(css_source, pos, CommentClose(css_source, pos + 2),
                      LastStar(css_source, pos + 2))
    ELSE IF css_source[pos] \in Punctuation
    THEN Match(Chr(css_source[pos]), pos + 1)
    ELSE Match("DELIM", pos + 1)

\* The number that hex digits write.
HexDigitValue(c) ==
    IF c \in 48..57 THEN c - 48
    ELSE IF c \in 97..102 THEN c - 87
    ELSE c - 55

RECURSIVE HexValue(_)
HexValue(digits) ==
    IF digits = <<>> THEN 0
    ELSE 16 * HexValue(SubSeq(digits, 1, Len(digits) - 1))
             + HexDigitValue(digits[Len(digits)])

\* sys.maxunicode
MaxUnicode == 1114111

\* _unicode_replace: the character of the code point, U+FFFD beyond the
\* last one.
unicode_replace(digits) ==
    IF HexValue(digits) <= MaxUnicode THEN HexValue(digits) ELSE 65533

\* UNICODE_UNESCAPE: every unicode escape, from the left, becomes its
\* character.
RECURSIVE unicode_unescape(_, _)
unicode_unescape(value, pos) ==
    IF pos > Len(value) THEN <<>>
    ELSE IF UnicodeEscapeEnd(value, pos) # 0
    THEN <<unicode_replace(
               SubSeq(value, pos + 1, HexEnd(value, pos + 1, 6) - 1))>>
             \o unicode_unescape(value, UnicodeEscapeEnd(value, pos))
    ELSE <<value[pos]>> \o unicode_unescape(value, pos + 1)

\* NEWLINE_UNESCAPE: every backslash and newline is removed.
RECURSIVE newline_unescape(_, _)
newline_unescape(value, pos) ==
    IF pos > Len(value) THEN <<>>
    ELSE IF value[pos] = 92 /\ NewlineEnd(value, pos + 1) # 0
    THEN newline_unescape(value, NewlineEnd(value, pos + 1))
    ELSE <<value[pos]>> \o newline_unescape(value, pos + 1)

\* SIMPLE_UNESCAPE: every backslash and the character after it, unless it
\* is \n, become that character.
RECURSIVE simple_unescape(_, _)
simple_unescape(value, pos) ==
    IF pos > Len(value) THEN <<>>
    ELSE IF value[pos] = 92 /\ pos < Len(value) /\ value[pos + 1] # 10
    THEN <<value[pos + 1]>> \o simple_unescape(value, pos + 2)
    ELSE <<value[pos]>> \o simple_unescape(value, pos + 1)

\* The value of an IDENT, ATKEYWORD or FUNCTION, and of what a string holds.
Unescaped(value) == simple_unescape(unicode_unescape(value, 1), 1)

StringValue(value) == Unescaped(newline_unescape(value, 1))

\* A tokenizer that leaves the BAD_STRING that ends the text as it is.
MatchedToken_without_promotion(css_source, pos, m, line, column) ==
    IF m.type \in {"IDENT", "ATKEYWORD", "FUNCTION"}
    THEN Token(m.type, Text(SubSeq(css_source, pos, m.next_pos - 1)),
               Text(Unescaped(SubSeq(css_source, pos, m.next_pos - 1))),
               line, column)
    ELSE IF m.type = "STRING"
    THEN Token("STRING", Text(SubSeq(css_source, pos, m.next_pos - 1)),
               Text(StringValue(SubSeq(css_source, pos + 1, m.next_pos - 2))),
               line, column)
    ELSE IF m.type = "BAD_STRING" /\ FALSE
    THEN Token("STRING", Text(SubSeq(css_source, pos, m.next_pos - 1)),
               Text(StringValue(SubSeq(css_source, pos + 1, m.next_pos - 1))),
               line, column)
    ELSE Token(m.type, Text(SubSeq(css_source, pos, m.next_pos - 1)),
               Text(SubSeq(css_source, pos, m.next_pos - 1)), line, column)

\* The type and value of the token of a match: a STRING loses its quotes, a
\* BAD_STRING that ends the text is a STRING that loses its opening quote,
\* another BAD_STRING, white space, a comment and a single character keep
\* their text.
MatchedToken(css_source, pos, m, line, column) ==
    IF m.type \in {"IDENT", "ATKEYWORD", "FUNCTION"}
    THEN Token(m.type, Text(SubSeq(css_source, pos, m.next_pos - 1)),
               Text(Unescaped(SubSeq(css_source, pos, m.next_pos - 1))),
               line, column)
    ELSE IF m.type = "STRING"
    THEN Token("STRING", Text(SubSeq(css_source, pos, m.next_pos - 1)),
               Text(StringValue(SubSeq(css_source, pos + 1, m.next_pos - 2))),
               line, column)
    ELSE IF m.type = "BAD_STRING" /\ m.next_pos = Len(css_source) + 1
    THEN Token("STRING", Text(SubSeq(css_source, pos, m.next_pos - 1)),
               Text(StringValue(SubSeq(css_source, pos + 1, m.next_pos - 1))),
               line, column)
    ELSE Token(m.type, Text(SubSeq(css_source, pos, m.next_pos - 1)),
               Text(SubSeq(css_source, pos, m.next_pos - 1)), line, column)

\* find_newlines(css_value): the positions after the newlines of the text
\* from pos to before next_pos, '\r\n' being one newline.
NewlineEnds(css_source, pos, next_pos) ==
    {NewlineEnd(css_source, i) : i \in
        {j \in pos..(next_pos - 1) :
            /\ IsNewline(css_source[j])
            /\ ~(css_source[j] = 10 /\ j > pos /\ css_source[j - 1] = 13)}}

\* `line += len(newlines)`
LineAfter(line, ends) == line + Cardinality(ends)

\* A tokenizer that never starts a new line of columns.
ColumnAfter_on_one_line(column, pos, next_pos, ends) ==
    column + (next_pos - pos)

\* `column = length - newlines[-1].end() + 1`, or `column += length`.
ColumnAfter(column, pos, next_pos, ends) ==
    IF ends # {} THEN next_pos - Max0(ends) + 1
    ELSE column + (next_pos - pos)

\* A tokenizer that ignores the COMMENT tokens only.
Yielded_but_for_comment(token, ignore_comments) ==
    IF ignore_comments /\ token.type \in {"COMMENT"}
    THEN <<>>
    ELSE <<token>>

\* The COMMENT and BAD_COMMENT tokens are not yielded when ignore_comments
\* is set.
Yielded(token, ignore_comments) ==
    IF ignore_comments /\ token.type \in {"COMMENT", "BAD_COMMENT"}
    THEN <<>>
    ELSE <<token>>

RECURSIVE tokenize_flat_from(_, _, _, _, _)
\* A tokenizer that skips the character after a comment.
tokenize_flat_match_skipping(css_source, pos, m, line, column, ignore_comments) ==
    Yielded(MatchedToken(css_source, pos, m, line, column), ignore_comments)
        \o tokenize_flat_from(
               css_source,
               IF m.type = "COMMENT" THEN m.next_pos + 1 ELSE m.next_pos,
               LineAfter(line, NewlineEnds(css_source, pos, m.next_pos)),
               ColumnAfter(column, pos, m.next_pos,
                           NewlineEnds(css_source, pos, m.next_pos)),
               ignore_comments)

\* The token of a match, then the tokens of the rest of the text.
tokenize_flat_match(css_source, pos, m, line, column, ignore_comments) ==
    Yielded(MatchedToken(css_source, pos, m, line, column), ignore_comments)
        \o tokenize_flat_from(
               css_source, m.next_pos,
               LineAfter(line, NewlineEnds(css_source, pos, m.next_pos)),
               ColumnAfter(column, pos, m.next_pos,
                           NewlineEnds(css_source, pos, m.next_pos)),
               ignore_comments)

\* `while pos < source_len`, pos counted from 1.
tokenize_flat_from(css_source, pos, line, column, ignore_comments) ==
    IF pos > Len(css_source) THEN <<>>
    ELSE tokenize_flat_match(css_source, pos, FirstMatch(css_source, pos),
                             line, column, ignore_comments)

tokenize_flat(css_source, ignore_comments) ==
    tokenize_flat_from(css_source, 1, 1, 1, ignore_comments)

(***************************************************************************)
(* Inputs: byte strings and encoding hints                                 *)
(***************************************************************************)

\* Longest run of the bytes 'a', 0xC3 and 0xA9 that ends a byte string:
\* 0xC3 0xA9 is valid UTF-8, each of the two alone is not.
MaxBodyLen == 2

\* The bytes of '@media;' and of 'a' in UTF-32-LE.
Bodies ==
    SeqsUpTo({97, 195, 169}, MaxBodyLen)
        \cup {<<64, 109, 101, 100, 105, 97, 59>>, <<97, 0, 0, 0>>}

\* Nothing, or a byte order mark.
Marks ==
    {<<>>, <<239, 187, 191>>, <<254, 255>>, <<255, 254>>,
     <<0, 0, 254, 255>>, <<255, 254, 0, 0>>}

\* Nothing, or '@charset "utf8";', '@charset "latin1";', '@charset "bogus";'
\* and ' @charset "latin1";'.
Charsets ==
    {<<>>,
     AtCharsetQuote \o <<117, 116, 102, 56, 34, 59>>,
     AtCharsetQuote \o <<108, 97, 116, 105, 110, 49, 34, 59>>,
     AtCharsetQuote \o <<98, 111, 103, 117, 115, 34, 59>>,
     <<32>> \o AtCharsetQuote \o <<108, 97, 116, 105, 110, 49, 34, 59>>}

ByteStrings == {m \o c \o b : m \in Marks, c \in Charsets, b \in Bodies}

Hints ==
    [protocol_encoding : {None, "utf8", "latin1", "bogus"},
     linking_encoding : {None, "utf8", "latin1"},
     document_encoding : {None, "utf8", "latin1"}]

\* Texts given to parse_stylesheet.
Texts == {iso_8859_1_decode(c \o b).text : c \in Charsets, b \in Bodies}

(***************************************************************************)
(* The entry points parse_stylesheet_file, parse_stylesheet_bytes and      *)
(* parse_stylesheet, from the bytes or the text on                         *)
(***************************************************************************)

BytesEntries == {"parse_stylesheet_file", "parse_stylesheet_bytes"}

InitDecode ==
    /\ \/ /\ entry \in BytesEntries
          /\ pc = entry
          /\ css_bytes \in ByteStrings
          /\ hints \in Hints
          /\ css_unicode = <<>>
          /\ encoding = None
       \/ /\ entry = "parse_stylesheet"
          /\ pc = "tokenize_flat"
          /\ css_bytes = <<>>
          /\ hints = <<>>
          /\ css_unicode \in Texts
          /\ encoding \in {None, "utf8"}
    /\ flat = <<>> /\ tokens = <<>> /\ rules = <<>> /\ errors = <<>>
    /\ raised = None /\ result = NoResult

\* `css_unicode, encoding = decode(...)`, then the call of parse_stylesheet;
\* a UnicodeDecodeError leaves the entry point.
BytesDecoded(d) ==
    /\ css_unicode' = d.text
    /\ encoding' = IF d.ok THEN d.encoding ELSE encoding
    /\ raised' = IF d.ok THEN raised ELSE "UnicodeDecodeError"
    /\ pc' = IF d.ok THEN "tokenize_flat" ELSE "raised"

\* parse_stylesheet_bytes, up to the call of parse_stylesheet.
ParseStylesheetBytes ==
    /\ pc = "parse_stylesheet_bytes"
    /\ BytesDecoded(decode(css_bytes, hints.protocol_encoding,
                           hints.linking_encoding, hints.document_encoding))
    /\ UNCHANGED <<flat, tokens, rules, errors, result, css_bytes, hints,
                   entry>>

\* parse_stylesheet_file: css_bytes is what the file holds; it is read and
\* given to parse_stylesheet_bytes with the same hints.
ParseStylesheetFile ==
    /\ pc = "parse_stylesheet_file"
    /\ pc' = "parse_stylesheet_bytes"
    /\ UNCHANGED <<flat, encoding, tokens, rules, errors, raised, result,
                   css_bytes, hints, css_unicode, entry>>

\* tokenize_grouped begins: the text is cut into flat tokens.
TokenizeFlat ==
    /\ pc = "tokenize_flat"
    /\ flat' = tokenize_flat(css_unicode, TRUE)
    /\ pc' = "parse_stylesheet"
    /\ UNCHANGED <<encoding, tokens, rules, errors, raised, result,
                   css_bytes, hints, css_unicode, entry>>

NextDecode ==
    \/ ParseStylesheetFile \/ ParseStylesheetBytes \/ TokenizeFlat
    \/ ParseStylesheet \/ ParseRulesStep \/ ReturnStylesheet

SpecDecode == InitDecode /\ [][NextDecode]_vars

(***************************************************************************)
(* Reference: the candidates of the decoder, read off the bytes and hints  *)
(***************************************************************************)

\* The bytes came through parse_stylesheet_bytes and decode has returned.
BytesWereDecoded == entry \in BytesEntries /\ pc \notin BytesEntries

\* The positions in BOMS of the marks the bytes begin with.
MarksAtStart(b) == {i \in 1..Len(BOMS) : StartsWith(b, BOMS[i].mark)}

\* The encoding of the longest byte order mark the bytes begin with.
MarkName(b) ==
    IF MarksAtStart(b) = {} THEN None
    ELSE BOMS[CHOOSE i \in MarksAtStart(b) :
                 \A j \in MarksAtStart(b) :
                     Len(BOMS[j].mark) <= Len(BOMS[i].mark)].encoding

\* The positions of the double quotes after '@charset "'.
ClosingQuotes(b) == {k \in (Len(AtCharsetQuote) + 1)..Len(b) : b[k] = 34}

\* The name the bytes declare in-band.
InBandName(b) ==
    IF StartsWith(b, AtCharsetQuote) /\ ClosingQuotes(b) # {}
    THEN Text(SubSeq(b, Len(AtCharsetQuote) + 1, Min(ClosingQuotes(b)) - 1))
    ELSE None

\* The candidates in the order of the design document.
CandidateNames(b, h) ==
    <<MarkName(b), h.protocol_encoding, InBandName(b), h.linking_encoding,
      h.document_encoding, "UTF-8", "ISO-8859-1">>

\* The candidates that are present and decode the whole of the bytes.
Usable(b, names) ==
    {i \in 1..Len(names) :
        names[i] # None /\ codec_decode(b, Codec(names[i])).ok}

\* The text of a candidate: the whole of the bytes decoded, less the
\* U+FEFF of the byte order mark when the mark is the candidate.
CandidateText(b, names, i) ==
    IF i = 1 THEN Tail(codec_decode(b, Codec(names[i])).text)
    ELSE codec_decode(b, Codec(names[i])).text

\* decode returned the first usable candidate of names.
ReturnedFirstOf(b, names, usable) ==
    /\ usable # {}
    /\ raised # "UnicodeDecodeError"
    /\ encoding = names[Min(usable)]
    /\ css_unicode = CandidateText(b, names, Min(usable))

NoHints ==
    hints = [protocol_encoding |-> None, linking_encoding |-> None,
             document_encoding |-> None]

\* The bytes hold '@charset' somewhere.
HasAtCharset(b) ==
    \E i \in 1..Len(b) : StartsWith(After(b, i - 1), SubSeq(AtCharsetQuote, 1, 8))

\* Bytes given without any hint, with no byte order mark and no @charset.
PlainBytes ==
    /\ entry \in BytesEntries /\ NoHints
    /\ MarkName(css_bytes) = None /\ ~HasAtCharset(css_bytes)

(***************************************************************************)
(* C8                                                                      *)
(***************************************************************************)

PlainBytesSucceed == PlainBytes => pc # "raised"

\* The part of C9 about decoding alone: no UnicodeDecodeError, and the
\* encoding is UTF-8 or, for bytes that are not valid UTF-8, ISO-8859-1.
PlainBytesDecode ==
    (PlainBytes /\ pc \notin BytesEntries) =>
        /\ raised # "UnicodeDecodeError"
        /\ encoding = IF utf_8_decode(css_bytes).ok THEN "UTF-8"
                      ELSE "ISO-8859-1"

(***************************************************************************)
(* C10                                                                     *)
(***************************************************************************)

\* The encoding of a stylesheet made from bytes is the name of the first
\* usable candidate.
EncodingThatDecoded(names, usable) == result.encoding = names[Min(usable)]

\* C10 as stated: Stylesheet.encoding is the name of the encoding that
\* decoded the bytes for parse_stylesheet_bytes and parse_stylesheet_file,
\* and it is None if and only if the stylesheet comes from parse_stylesheet.
EncodingAbsentIffTextEntry ==
    IsSheet =>
        /\ entry \in BytesEntries =>
               EncodingThatDecoded(
                   CandidateNames(css_bytes, hints),
                   Usable(css_bytes, CandidateNames(css_bytes, hints)))
        /\ result.encoding = None <=> entry = "parse_stylesheet"

\* C10, amended: Stylesheet.encoding is the name of the encoding that
\* decoded the bytes, never None, for parse_stylesheet_bytes and
\* parse_stylesheet_file; for parse_stylesheet it is the encoding argument
\* of the call, None only when the caller gave none.
EncodingIsTheArgument ==
    IsSheet =>
        IF entry \in BytesEntries
        THEN /\ EncodingThatDecoded(
                    CandidateNames(css_bytes, hints),
                    Usable(css_bytes, CandidateNames(css_bytes, hints)))
             /\ result.encoding # None
        ELSE result.encoding = encoding

\* A file whose @charset names the encoding that decoded it.
EncodingWitness ==
    /\ IsSheet /\ entry = "parse_stylesheet_file"
    /\ hints.protocol_encoding = None
    /\ InBandName(css_bytes) = "latin1"
    /\ ~utf_8_decode(css_bytes).ok
    /\ result.encoding = "latin1"

(***************************************************************************)
(* Stylesheets around @charset                                             *)
(***************************************************************************)

kS2        == K("S", "  ", "  ")
kCHARSET   == K("ATKEYWORD", "@CHARSET", "@CHARSET")
kStr1      == K("STRING", "'u'", "u")

CharsetStatements ==
    {<<kCharset, kS, kStr, kSemi>>,                     \* @charset "u";
     <<kS>>,                                            \* (a space)
     <<kCharset, kS, kA, kSemi>>,                       \* @charset a;
     <<kCharset, kS, kStr>>,                            \* @charset "u"
     <<kCharset, kS2, kStr, kSemi>>,                    \* @charset  "u";
     <<kCharset, kStr, kSemi>>,                         \* @charset"u";
     <<kCHARSET, kS, kStr, kSemi>>,                     \* @CHARSET "u";
     <<kCharset, kS, kStr1, kSemi>>,                    \* @charset 'u';
     <<kCharset, kS, kStr, kLB, kRB>>,                  \* @charset "u"{}
     <<kCharset, kCDO, kSemi>>,                         \* @charset<!--;
     <<kA, kLB, kRB>>,                                  \* a{}
     <<kMedia, kS, kA, kLB, kCharset, kS, kStr, kSemi,
       kA, kLB, kRB, kRB>>,                             \* @media a{@charset "u";a{}}
     <<kPage, kLB, kCharset, kS, kStr, kSemi, kRB>>}    \* @page{@charset "u";}

\* Two white space tokens never follow each other in a token stream.
NoAdjacentSpaces(kinds) ==
    \A i \in 1..(Len(kinds) - 1) :
        ~(kinds[i].type = "S" /\ kinds[i + 1].type = "S")

CharsetStylesheets ==
    {Positioned(Concat(ss)) :
        ss \in {x \in SeqsUpTo(CharsetStatements, MaxStatements) :
                   NoAdjacentSpaces(Concat(x))}}

InitCharset ==
    /\ pc = "parse_stylesheet"
    /\ flat \in CharsetStylesheets
    /\ encoding \in {None, "utf8"}
    /\ tokens = <<>> /\ rules = <<>> /\ errors = <<>>
    /\ raised = None /\ result = NoResult
    /\ css_bytes = <<>> /\ hints = <<>> /\ css_unicode = <<>>
    /\ entry = pc

NextCharset == ParseStylesheet \/ ParseRulesStep \/ ReturnStylesheet

SpecCharset == InitCharset /\ [][NextCharset]_vars

(***************************************************************************)
(* C11                                                                     *)
(***************************************************************************)

IsCharsetStart(token) ==
    token.type = "ATKEYWORD" /\ Lower(token.value) = "@charset"

Misplaced == "mis-placed or malformed @charset rule"

\* No @charset among the rules, the rules of a MediaRule or the at-rules of
\* a PageRule.
NoCharsetRule(rules_) ==
    \A i \in 1..Len(rules_) :
        /\ rules_[i].at_keyword # "@charset"
        /\ rules_[i].at_keyword = "@media" =>
               \A j \in 1..Len(rules_[i].rules) :
                   rules_[i].rules[j].at_keyword # "@charset"
        /\ rules_[i].at_keyword = "@page" =>
               \A j \in 1..Len(rules_[i].at_rules) :
                   rules_[i].at_rules[j].at_keyword # "@charset"

\* The source starts with exactly '@charset', one space, a double-quoted
\* string and ';'.
ValidLeadingCharset(toks) ==
    /\ Len(toks) >= 4
    /\ toks[1].type = "ATKEYWORD" /\ toks[1].css_start = "@charset"
    /\ toks[2].type = "S" /\ toks[2].css_start = " "
    /\ toks[3].type = "STRING" /\ StartsWithDoubleQuote(toks[3].css_start)
    /\ toks[4].type = ";"

\* parse_stylesheet removes the leading @charset, silently, exactly when an
\* encoding is given and the source starts with a valid one.
LeadingCharsetRemoved ==
    pc = "parse_stylesheet" =>
        /\ errors' = <<>>
        /\ tokens' = IF EncodingGiven(encoding) /\ ValidLeadingCharset(flat)
                     THEN regroup(SubSeq(flat, 5, Len(flat)))
                     ELSE regroup(flat)

\* The statements of a token list, each as the tokens from its first one on.
RECURSIVE StatementSlices(_)
StatementSlices(toks) ==
    IF toks = <<>> THEN <<>>
    ELSE IF Head(toks).type \in {"S", "CDO", "CDC"}
    THEN StatementSlices(Tail(toks))
    ELSE <<toks>> \o StatementSlices(After(toks, StatementEnd(toks)))

\* parse_rules is about to read an @charset of the stylesheet context.
CharsetStep ==
    pc = "parse_rules" /\ tokens # <<>> /\ IsCharsetStart(Head(tokens))

\* The step dropped the statement with one error, 'mis-placed or malformed
\* @charset rule', at the position of the at-keyword.
DroppedAsMisplaced ==
    /\ rules' = rules
    /\ Len(errors') = Len(errors) + 1
    /\ errors'[Len(errors')].reason = Misplaced
    /\ errors'[Len(errors')].column = Head(tokens).column

\* The step dropped the statement with one error of read_at_rule.
DroppedAsUnreadable ==
    /\ rules' = rules
    /\ Len(errors') = Len(errors) + 1
    /\ errors'[Len(errors')].reason # Misplaced

\* The step accepted an @media rule: every readable @charset statement of
\* its body has its 'mis-placed' error among the errors of the step.
CharsetInMediaDropped ==
    (/\ pc = "parse_rules" /\ tokens # <<>>
     /\ Len(rules') = Len(rules) + 1
     /\ rules'[Len(rules')].at_keyword = "@media") =>
        LET inner == StatementSlices(tokens[StatementEnd(tokens)].content) IN
        \A k \in 1..Len(inner) :
            (IsCharsetStart(inner[k][1]) /\ ReadableAtRule(inner[k])) =>
                \E e \in (Len(errors) + 1)..Len(errors') :
                    /\ errors'[e].reason = Misplaced
                    /\ errors'[e].column = inner[k][1].column

\* C11 (as stated): no @charset rule is ever in Stylesheet.rules; a leading
\* @charset is removed silently only when an encoding was used and the
\* first four tokens are '@charset', one space, a double-quoted string and
\* ';'; every other @charset is dropped with 'mis-placed or malformed
\* @charset rule'.
EveryOtherCharsetMisplaced ==
    [][/\ NoCharsetRule(rules')
       /\ LeadingCharsetRemoved
       /\ CharsetInMediaDropped
       /\ CharsetStep => DroppedAsMisplaced
      ]_vars

\* C11 (amended): as stated for every @charset statement that read_at_rule
\* can read (it ends with ';' or a block and its head holds valid tokens);
\* one that cannot be read is dropped as well, with the error of
\* read_at_rule instead.
ReadableCharsetMisplaced ==
    [][/\ NoCharsetRule(rules')
       /\ LeadingCharsetRemoved
       /\ CharsetInMediaDropped
       /\ CharsetStep =>
              IF ReadableAtRule(tokens) THEN DroppedAsMisplaced
              ELSE DroppedAsUnreadable
      ]_vars

\* '@charset "u";@charset "u";' parsed with an encoding: the first is
\* removed silently, the second is dropped with the error.
CharsetWitness ==
    /\ IsSheet /\ EncodingGiven(encoding) /\ ValidLeadingCharset(flat)
    /\ result.rules = <<>>
    /\ Len(result.errors) = 1
    /\ result.errors[1].reason = Misplaced
    /\ result.errors[1].column = 5

(***************************************************************************)
(* parse_value_priority alone, on token lists                              *)
(***************************************************************************)

\* Longest value given to parse_value_priority.
MaxValueLen == 4

ValueKinds ==
    {kA, kS, kBang, kImportant, K("IDENT", "IMPORTANT", "IMPORTANT")}

InitPriority ==
    /\ pc = "parse_value_priority"
    /\ flat \in {Positioned(ks) :
                    ks \in SeqsUpTo(ValueKinds, MaxValueLen) \ {<<>>}}
    /\ encoding = None
    /\ tokens = <<>> /\ rules = <<>> /\ errors = <<>>
    /\ raised = None /\ result = NoResult
    /\ css_bytes = <<>> /\ hints = <<>> /\ css_unicode = <<>>
    /\ entry = pc

\* parse_value_priority(original_value): (value, priority) or a ParseError.
ParseValuePriority ==
    /\ pc = "parse_value_priority"
    /\ result' = parse_value_priority(flat)
    /\ pc' = "done"
    /\ UNCHANGED <<flat, encoding, tokens, rules, errors, raised,
                   css_bytes, hints, css_unicode, entry>>

NextPriority == ParseValuePriority

SpecPriority == InitPriority /\ [][NextPriority]_vars

(***************************************************************************)
(* C12                                                                     *)
(***************************************************************************)

\* The positions of a '!' that only white space separates from a last
\* token that is the IDENT 'important': none or one.
BangBeforeImportant(v) ==
    {i \in 1..(Len(v) - 1) :
        /\ v[i].type = "DELIM" /\ v[i].value = "!"
        /\ v[Len(v)].type = "IDENT" /\ v[Len(v)].value = "important"
        /\ \A j \in (i + 1)..(Len(v) - 1) : v[j].type = "S"}

\* The tokens before position i, up to the last that is not white space.
ValueBefore(v, i) ==
    SubSeq(v, 1, Max0({k \in 1..(i - 1) : v[k].type # "S"}))

\* C12: parse_value_priority gives priority 'important' exactly when the
\* value ends with '!', optional white space and the IDENT 'important'; the
\* value is then the original one without these and without the white
\* space before the '!', and it is the error 'expected a value before
\* !important' when nothing is left; otherwise the value is unchanged and
\* the priority is None.
ImportantExactlyAtEnd ==
    (entry = "parse_value_priority" /\ pc = "done") =>
        IF BangBeforeImportant(flat) = {}
        THEN /\ result.exc = NoExc
             /\ result.value = flat
             /\ result.priority = None
        ELSE IF ValueBefore(flat, Min(BangBeforeImportant(flat))) = <<>>
        THEN /\ result.exc # NoExc
             /\ result.exc.reason = "expected a value before !important"
        ELSE /\ result.exc = NoExc
             /\ result.priority = "important"
             /\ result.value = ValueBefore(flat, Min(BangBeforeImportant(flat)))

\* 'a ! important': the value is 'a' alone.
ImportantWitness ==
    /\ entry = "parse_value_priority" /\ pc = "done"
    /\ result.exc = NoExc
    /\ result.priority = "important"
    /\ Len(flat) = 4 /\ Len(result.value) = 1

(***************************************************************************)
(* Stylesheets made of one @media rule                                     *)
(***************************************************************************)

\* Candidate statements of the body of an @media rule.
NestedStatements ==
    {<<kImport, kS, kStr, kSemi>>,                      \* @import "u";
     <<kIMPORT, kSemi>>,                                \* @IMPORT;
     <<kImport, kS, kStr, kLB, kRB>>,                   \* @import "u"{}
     <<kImport, kCDO, kSemi>>,                          \* @import<!--;
     <<kImport, kS, kStr>>,                             \* @import "u"
     <<kPage, kLB, kRB>>,                               \* @page{}
     <<kPage, kS, kA, kLB, kA, kColon, kA, kRB>>,       \* @page a{a:a}
     <<kPage, kSemi>>,                                  \* @page;
     <<kMedia, kS, kA, kLB, kA, kLB, kRB, kRB>>,        \* @media a{a{}}
     <<kMedia, kSemi>>,                                 \* @media;
     <<kMedia, kLB, kRB>>,                              \* @media{}
     <<kFoo, kSemi>>,                                   \* @foo;
     <<kA, kLB, kA, kColon, kA, kRB>>,                  \* a{a:a}
     <<kB, kLB, kA, kRB>>,                              \* B{a}
     <<kA, kCDO, kLB, kRB>>,                            \* a<!--{}
     <<kS>>}                                            \* (a space)

\* '@media a{', the statements, '}'.
MediaStylesheets ==
    {Positioned(<<kMedia, kS, kA, kLB>> \o Concat(ss) \o <<kRB>>) :
        ss \in {x \in SeqsUpTo(NestedStatements, MaxStatements) :
                   NoAdjacentSpaces(Concat(x))}}

InitMedia ==
    /\ pc = "parse_stylesheet"
    /\ flat \in MediaStylesheets
    /\ encoding = None
    /\ tokens = <<>> /\ rules = <<>> /\ errors = <<>>
    /\ raised = None /\ result = NoResult
    /\ css_bytes = <<>> /\ hints = <<>> /\ css_unicode = <<>>
    /\ entry = pc

NextMedia == ParseStylesheet \/ ParseRulesStep \/ ReturnStylesheet

SpecMedia == InitMedia /\ [][NextMedia]_vars

(***************************************************************************)
(* C13                                                                     *)
(***************************************************************************)

\* The statements of the body of the @media rule a stylesheet is made of.
MediaBodyStatements == StatementSlices(regroup(flat)[4].content)

IsNestedStart(token) ==
    token.type = "ATKEYWORD"
        /\ Lower(token.value) \in {"@page", "@media", "@import"}

\* The statement was dropped with '<keyword> rule not allowed in @media',
\* at the position of its at-keyword.
NotAllowedInMedia(statement) ==
    /\ \E e \in 1..Len(result.errors) :
           /\ result.errors[e].column = statement[1].column
           /\ result.errors[e].reason =
                  Lower(statement[1].value) \o " rule not allowed in @media"
    /\ \A j \in 1..Len(result.rules[1].rules) :
           result.rules[1].rules[j].column # statement[1].column

\* The statement is a ruleset of the core grammar: it has a block and its
\* selector holds valid tokens.
ReadableRuleset(statement) ==
    /\ statement[1].type # "ATKEYWORD"
    /\ statement[StatementEnd(statement)].type = "{"
    /\ validate_any_each(
           StripTrailingS(SubSeq(statement, 1, StatementEnd(statement) - 1)),
           "selector") = NoExc

\* The rulesets of the body are the rules of the MediaRule, in order.
SiblingRulesetsKept(statements) ==
    LET kept == SelectSeq(statements, ReadableRuleset) IN
    /\ Len(result.rules[1].rules) = Len(kept)
    /\ \A j \in 1..Len(kept) :
           /\ result.rules[1].rules[j].at_keyword = None
           /\ result.rules[1].rules[j].column = kept[j][1].column

\* The stylesheet is the MediaRule of its one statement.
IsMediaSheet ==
    /\ IsSheet /\ entry = "parse_stylesheet"
    /\ Len(result.rules) = 1 /\ result.rules[1].at_keyword = "@media"

\* C13 (as stated): in the body of an @media rule every nested @page,
\* @media and @import is dropped with '<keyword> rule not allowed in
\* @media', whatever its head or body, and the sibling rulesets are kept in
\* MediaRule.rules.
NestedAtRulesNotAllowed ==
    IsMediaSheet =>
        /\ SiblingRulesetsKept(MediaBodyStatements)
        /\ \A k \in 1..Len(MediaBodyStatements) :
               IsNestedStart(MediaBodyStatements[k][1]) =>
                   NotAllowedInMedia(MediaBodyStatements[k])

\* C13 (amended): the same for every nested @page, @media and @import that
\* read_at_rule can read; one that cannot be read (not terminated, or with
\* an invalid token in its head) is dropped with the error of read_at_rule.
ReadableNestedAtRulesNotAllowed ==
    IsMediaSheet =>
        /\ SiblingRulesetsKept(MediaBodyStatements)
        /\ \A k \in 1..Len(MediaBodyStatements) :
               IsNestedStart(MediaBodyStatements[k][1]) =>
                   IF ReadableAtRule(MediaBodyStatements[k])
                   THEN NotAllowedInMedia(MediaBodyStatements[k])
                   ELSE \E e \in 1..Len(result.errors) :
                            /\ result.errors[e].column
                                   >= MediaBodyStatements[k][1].column
                            /\ result.errors[e].reason \in
                                   {"incomplete at-rule",
                                    "unexpected CDO token in at-rule head",
                                    "unexpected ATKEYWORD token in at-rule head"}

\* '@media a{@media;a{a:a}}': the nested @media is dropped, the ruleset
\* after it is kept.
NestedWitness ==
    /\ IsMediaSheet
    /\ Len(MediaBodyStatements) = 2
    /\ Lower(MediaBodyStatements[1][1].value) = "@media"
    /\ Len(MediaBodyStatements[1]) > 1
    /\ MediaBodyStatements[1][2].type = ";"
    /\ Len(result.rules[1].rules) = 1
    /\ Len(result.errors) = 1
    /\ result.errors[1].reason = "@media rule not allowed in @media"

(***************************************************************************)
(* C14                                                                     *)
(***************************************************************************)

\* Position a is not after position b in the source.
NotAfter(a, b) == a.line < b.line \/ (a.line = b.line /\ a.column <= b.column)

\* C14: in the errors of one parse_stylesheet call the (line, column)
\* positions of successive errors are non-decreasing.
ErrorsInSourceOrder ==
    IsSheet =>
        \A i \in 1..(Len(result.errors) - 1) :
            NotAfter(result.errors[i], result.errors[i + 1])

\* The errors that are not '@import rule not allowed after ...' are in
\* source order.
OtherErrorsInSourceOrder ==
    IsSheet =>
        LET others == SelectSeq(result.errors,
                                LAMBDA e : e.reason \notin NotAllowedAfter) IN
        \A i \in 1..(Len(others) - 1) : NotAfter(others[i], others[i + 1])

(***************************************************************************)
(* Stylesheets of several rules with several declarations each             *)
(***************************************************************************)

\* Candidate statements: rulesets and @page rules with two declarations,
\* @media rules with two rulesets, and the statements that are dropped
\* between them.
OrderStatements ==
    {<<kA, kLB, kA, kColon, kA, kSemi, kB, kColon, kA, kRB>>,   \* a{a:a;B:a}
     <<kB, kLB, kA, kSemi, kA, kColon, kA, kSemi, kSemi,
       kB, kColon, kA, kRB>>,                           \* B{a;a:a;;B:a}
     <<kPage, kLB, kA, kColon, kA, kSemi, kB, kColon, kA,
       kRB>>,                                           \* @page{a:a;B:a}
     <<kPage, kLB, kA, kColon, kA, kLK, kRK, kB, kColon, kA,
       kSemi, kFoo, kSemi, kA, kColon, kA, kRB>>,       \* @page{a:a[]B:a;@foo;a:a}
     <<kMedia, kS, kA, kLB, kA, kLB, kA, kColon, kA, kSemi, kB,
       kColon, kA, kRB, kFoo, kSemi, kB, kLB, kA, kColon, kA,
       kRB, kRB>>,                                      \* @media a{a{a:a;B:a}@foo;B{a:a}}
     <<kImport, kS, kStr, kSemi>>,                      \* @import "u";
     <<kFoo, kSemi>>,                                   \* @foo;
     <<kA, kSemi>>,                                     \* a;
     <<kS>>}                                            \* (a space)

OrderStylesheets ==
    {Positioned(Concat(ss)) :
        ss \in {x \in SeqsUpTo(OrderStatements, MaxStatements + 1) :
                   NoAdjacentSpaces(Concat(x))}}

InitOrder ==
    /\ pc = "parse_stylesheet"
    /\ flat \in OrderStylesheets
    /\ encoding = None
    /\ tokens = <<>> /\ rules = <<>> /\ errors = <<>>
    /\ raised = None /\ result = NoResult
    /\ css_bytes = <<>> /\ hints = <<>> /\ css_unicode = <<>>
    /\ entry = pc

NextOrder == ParseStylesheet \/ ParseRulesStep \/ ReturnStylesheet

SpecOrder == InitOrder /\ [][NextOrder]_vars

(***************************************************************************)
(* C15                                                                     *)
(***************************************************************************)

\* a is strictly before b in the source.
StrictlyBefore(a, b) ==
    a.line < b.line \/ (a.line = b.line /\ a.column < b.column)

StrictlyIncreasing(list) ==
    \A i \in 1..(Len(list) - 1) : StrictlyBefore(list[i], list[i + 1])

\* The declarations of a ruleset or an @page rule are in source order.
DeclarationsInOrder(rule) ==
    "declarations" \in DOMAIN rule => StrictlyIncreasing(rule.declarations)

\* The rules of a MediaRule, and their declarations, are in source order.
NestedRulesInOrder(rule) ==
    "rules" \in DOMAIN rule =>
        /\ StrictlyIncreasing(rule.rules)
        /\ \A j \in 1..Len(rule.rules) : DeclarationsInOrder(rule.rules[j])

\* C15: every list of the output is in source order: the (line, column)
\* positions of the rules of Stylesheet.rules and of each MediaRule.rules are
\* strictly increasing, and so are the positions of the declarations of each
\* ruleset and of each @page rule.
OutputInSourceOrder ==
    IsSheet =>
        /\ StrictlyIncreasing(result.rules)
        /\ \A i \in 1..Len(result.rules) :
               /\ DeclarationsInOrder(result.rules[i])
               /\ NestedRulesInOrder(result.rules[i])

\* 'a{a:a;B:a}@media a{a{a:a;B:a}@foo;B{a:a}}@page{a:a;B:a}': three rules
\* with two declarations or two rules each, the second ruleset of the @media
\* rule after a dropped at-rule.
OutputInSourceOrderWitness ==
    /\ IsSheet
    /\ Len(result.rules) = 3
    /\ result.rules[1].at_keyword = None
    /\ Len(result.rules[1].declarations) = 2
    /\ result.rules[2].at_keyword = "@media"
    /\ Len(result.rules[2].rules) = 2
    /\ Len(result.rules[2].rules[1].declarations) = 2
    /\ result.rules[3].at_keyword = "@page"
    /\ Len(result.rules[3].declarations) = 2
    /\ Len(result.errors) = 1

(***************************************************************************)
(* parse_media alone, on token lists                                       *)
(***************************************************************************)

\* Longest list of elements given to parse_media.
MaxMediaLen == 4

\* Candidate elements of a media list: identifiers, a comma, white space,
\* a token that is neither, an empty '[]' and a '[a]'.
MediaElements ==
    {<<kA>>, <<kPrint>>, <<kComma>>, <<kS>>, <<kStr>>,
     <<kLK, kRK>>, <<kLK, kA, kRK>>}

InitMediaList ==
    /\ pc = "parse_media"
    /\ flat \in {Positioned(Concat(es)) :
                    es \in {x \in SeqsUpTo(MediaElements, MaxMediaLen) \ {<<>>} :
                               NoAdjacentSpaces(Concat(x))}}
    /\ encoding = None
    /\ tokens = <<>> /\ rules = <<>> /\ errors = <<>>
    /\ raised = None /\ result = NoResult
    /\ css_bytes = <<>> /\ hints = <<>> /\ css_unicode = <<>>
    /\ entry = pc

\* parse_media(tokens) on the regrouped tokens: the media types or a
\* ParseError.
ParseMedia ==
    /\ pc = "parse_media"
    /\ tokens' = regroup(flat)
    /\ result' = parse_media(regroup(flat))
    /\ pc' = "done"
    /\ UNCHANGED <<flat, encoding, rules, errors, raised,
                   css_bytes, hints, css_unicode, entry>>

NextMediaList == ParseMedia

SpecMediaList == InitMediaList /\ [][NextMediaList]_vars

(***************************************************************************)
(* C16                                                                     *)
(***************************************************************************)

IsMediaListDone == entry = "parse_media" /\ pc = "done"

\* The token at i is white space next to a comma.
SpaceAtComma(v, i) ==
    /\ v[i].type = "S"
    /\ \/ i > 1 /\ IsComma(v[i - 1])
       \/ i < Len(v) /\ IsComma(v[i + 1])

\* The tokens from i on, without the white space next to a comma.
RECURSIVE WithoutSpaceAtCommas(_, _)
WithoutSpaceAtCommas(v, i) ==
    IF i > Len(v) THEN <<>>
    ELSE (IF SpaceAtComma(v, i) THEN <<>> ELSE <<v[i]>>)
             \o WithoutSpaceAtCommas(v, i + 1)

\* IDENT tokens separated by commas, white space allowed on either side of
\* each comma.
IsMediaList(v) ==
    LET e == WithoutSpaceAtCommas(v, 1) IN
    /\ Len(e) % 2 = 1
    /\ \A i \in 1..Len(e) :
           IF i % 2 = 1 THEN e[i].type = "IDENT" ELSE IsComma(e[i])

\* The lower-cased identifiers of the list, in order.
RECURSIVE LoweredIdents(_)
LoweredIdents(v) ==
    IF v = <<>> THEN <<>>
    ELSE (IF Head(v).type = "IDENT" THEN <<Lower(Head(v).value)>> ELSE <<>>)
             \o LoweredIdents(Tail(v))

\* C16: parse_media accepts a token list exactly when it is a list of IDENT
\* tokens separated by ',' DELIM tokens with optional white space on either
\* side of each comma, and then returns the lower-cased identifiers in
\* order; every other list is an error.
MediaListsAccepted ==
    IsMediaListDone =>
        IF IsMediaList(tokens)
        THEN result.exc = NoExc /\ result.media = LoweredIdents(tokens)
        ELSE result.exc # NoExc

\* White space before a comma, or an empty '[]', '()' or '{}' where a comma
\* is expected.
SpaceBeforeComma(v) ==
    \E i \in 1..(Len(v) - 1) : v[i].type = "S" /\ IsComma(v[i + 1])

EmptyContainerAfterIdent(v) ==
    \E i \in 2..Len(v) : v[i - 1].type = "IDENT" /\ ~Truthy(v[i])

\* What the code does: without white space before a comma and without an
\* empty container after an identifier, the lists it accepts are the media
\* lists; white space before a comma is 'expected a comma, got S'.
MediaListsAcceptedOtherwise ==
    IsMediaListDone =>
        /\ (~SpaceBeforeComma(tokens) /\ ~EmptyContainerAfterIdent(tokens)) =>
               IF IsMediaList(tokens)
               THEN /\ result.exc = NoExc
                    /\ result.media = LoweredIdents(tokens)
               ELSE result.exc # NoExc
        /\ (IsMediaList(tokens) /\ SpaceBeforeComma(tokens)) =>
               /\ result.exc # NoExc
               /\ result.exc.reason = "expected a comma, got S"

(***************************************************************************)
(* parse_page_selector alone, on at-rule heads                             *)
(***************************************************************************)

\* Longest head given to parse_page_selector.
MaxHeadLen == 3

kLeft  == K("IDENT", "left", "left")
kRight == K("IDENT", "right", "right")
kFIRST == K("IDENT", "FIRST", "FIRST")

HeadKinds == {kColon, kFirst, kLeft, kRight, kFIRST, kA, kS, kStr}

\* The heads read_at_rule builds: no white space at either end.
PageHeads ==
    {Positioned(ks) :
        ks \in {x \in SeqsUpTo(HeadKinds, MaxHeadLen) :
                   /\ NoAdjacentSpaces(x)
                   /\ x # <<>> => (x[1] # kS /\ x[Len(x)] # kS)}}

InitPageSelector ==
    /\ pc = "parse_page_selector"
    /\ flat \in PageHeads
    /\ encoding = None
    /\ tokens = <<>> /\ rules = <<>> /\ errors = <<>>
    /\ raised = None /\ result = NoResult
    /\ css_bytes = <<>> /\ hints = <<>> /\ css_unicode = <<>>
    /\ entry = pc

\* parse_page_selector(head): (selector, specificity) or a ParseError.
ParsePageSelector ==
    /\ pc = "parse_page_selector"
    /\ result' = parse_page_selector(flat)
    /\ pc' = "done"
    /\ UNCHANGED <<flat, encoding, tokens, rules, errors, raised,
                   css_bytes, hints, css_unicode, entry>>

NextPageSelector == ParsePageSelector

SpecPageSelector == InitPageSelector /\ [][NextPageSelector]_vars

(***************************************************************************)
(* C17                                                                     *)
(***************************************************************************)

IsPageSelectorDone == entry = "parse_page_selector" /\ pc = "done"

\* The head is ':' immediately followed by one of first, left, right.
IsPseudoPage(head) ==
    /\ Len(head) = 2
    /\ head[1].type = ":"
    /\ head[2].type = "IDENT"
    /\ head[2].value \in {"first", "left", "right"}

\* (0,0) for no selector, (1,0) for first, (0,1) for left and right.
PageSpecificity(head) ==
    IF head = <<>> THEN <<0, 0>>
    ELSE IF head[2].value = "first" THEN <<1, 0>> ELSE <<0, 1>>

\* The heads that are accepted, and the error of the others.
PageHeadAccepted(specificity) ==
    IF flat = <<>> \/ IsPseudoPage(flat)
    THEN /\ result.exc = NoExc
         /\ result.selector = (IF flat = <<>> THEN None ELSE flat[2].value)
         /\ result.specificity = specificity
    ELSE /\ result.exc # NoExc
         /\ result.exc.reason = "invalid @page selector"
         /\ result.exc.column = flat[1].column

ColonSegments ==
    {<<>>,                                              \* (empty)
     <<kS>>,                                            \* white space
     <<kA>>,                                            \* a
     <<kA, kS>>,                                        \* a
     <<kS, kB, kS>>,                                    \*  B
     <<kA, kColon, kA>>,                                \* a:a
     <<kS, kB, kColon, kS, kA, kS>>,                    \*  B: a
     <<kA, kS, kStr>>}                                  \* a "u"

\* 'a{', the segments with a ';' between them, '}'.
ColonStylesheets ==
    {Positioned(<<kA, kLB>> \o Join(segs) \o <<kRB>>) :
        segs \in UNION {[1..k -> ColonSegments] :
                           k \in 1..(MaxSemicolons + 1)}}

InitColon ==
    /\ pc = "parse_stylesheet"
    /\ flat \in ColonStylesheets
    /\ encoding = None
    /\ tokens = <<>> /\ rules = <<>> /\ errors = <<>>
    /\ raised = None /\ result = NoResult
    /\ css_bytes = <<>> /\ hints = <<>> /\ css_unicode = <<>>
    /\ entry = pc

NextColon == ParseStylesheet \/ ParseRulesStep \/ ReturnStylesheet

SpecColon == InitColon /\ [][NextColon]_vars

(***************************************************************************)
(* C18                                                                     *)
(***************************************************************************)

\* The tokens of the block of the ruleset a stylesheet is made of.
RulesetBody == regroup(flat)[2].content

\* The positions of the ';' of the block.
Semicolons(body) == {i \in 1..Len(body) : body[i].type = ";"}

\* The segment that the ';' at position s ends, and the one that follows it.
SegmentBefore(body, s) ==
    SubSeq(body, Max0({j \in Semicolons(body) : j < s}) + 1, s - 1)

SegmentAfter(body, s) ==
    SubSeq(body, s + 1,
           Min({j \in Semicolons(body) : j > s} \cup {Len(body) + 1}) - 1)

\* A property name and nothing else but white space.
NameWithoutColon(segment) ==
    /\ \E k \in 1..Len(segment) : segment[k].type = "IDENT"
    /\ Cardinality({k \in 1..Len(segment) : segment[k].type # "S"}) = 1

\* The errors of the result between the columns from and to.
ErrorsBetween(from, to) ==
    SelectSeq(result.errors, LAMBDA e : from <= e.column /\ e.column <= to)

\* The declaration that the segment after the ';' at s holds is in the
\* ruleset.
FollowingDeclarationKept(body, s) ==
    LET following == parse_declaration_list(SegmentAfter(body, s)) IN
    following.declarations # <<>> =>
        \E d \in 1..Len(result.rules[1].declarations) :
            result.rules[1].declarations[d] = following.declarations[1]

\* The segment that the ';' at s ends gave the single error "expected ':'"
\* at the token at position at, and the following declaration is kept.
ExpectedColonAt(body, s, at) ==
    /\ ErrorsBetween(SegmentBefore(body, s)[1].column, body[s].column) =
           <<ParseError(body[at], "expected ':'")>>
    /\ FollowingDeclarationKept(body, s)

\* C18 as stated: a segment that has a property name but no ':' before the
\* ';' that ends it gives the single error "expected ':'" with the line
\* and column of that ';', and the following declaration is kept.
ExpectedColonAtSemicolon ==
    IsSheet =>
        \A s \in Semicolons(RulesetBody) :
            NameWithoutColon(SegmentBefore(RulesetBody, s)) =>
                ExpectedColonAt(RulesetBody, s, s)

\* C18, amended: the single error "expected ':'" has the line and column of
\* the last token of the segment, the one before the ';': the white space
\* after the property name, or the name when nothing follows it; the
\* following declaration is kept.
ExpectedColonAtLastToken ==
    IsSheet =>
        \A s \in Semicolons(RulesetBody) :
            NameWithoutColon(SegmentBefore(RulesetBody, s)) =>
                ExpectedColonAt(RulesetBody, s, s - 1)

\* 'a{a ; B: a }': the error is at the white space after the first 'a' and
\* the declaration 'B: a' is kept.
ExpectedColonWitness ==
    /\ IsSheet
    /\ Len(result.rules) = 1
    /\ Len(result.rules[1].declarations) = 1
    /\ result.rules[1].declarations[1].name = "b"
    /\ Len(result.errors) = 1
    /\ result.errors[1].reason = "expected ':'"
    /\ RulesetBody[2].type = "S" /\ RulesetBody[3].type = ";"
    /\ result.errors[1].column = RulesetBody[2].column
    /\ result.errors[1].column < result.rules[1].declarations[1].column

(***************************************************************************)
(* Stylesheets given as text, with strings that are not closed             *)
(***************************************************************************)

\* Longest free part of a text.
MaxTextLen == 4

\* 'x', '"', a newline, a backslash, ';', ':' and '{'.
StringAlphabet == {120, 34, 10, 92, 59, 58, 123}

\* Nothing, 'x{x:' and '@x '.
StringPrefixes == {<<>>, <<120, 123, 120, 58>>, <<64, 120, 32>>}

StringTexts ==
    {prefix \o free : prefix \in StringPrefixes,
                      free \in SeqsUpTo(StringAlphabet, MaxTextLen)}

InitString ==
    /\ entry = "parse_stylesheet"
    /\ pc = "tokenize_flat"
    /\ css_unicode \in StringTexts
    /\ encoding = None
    /\ css_bytes = <<>> /\ hints = <<>>
    /\ flat = <<>> /\ tokens = <<>> /\ rules = <<>> /\ errors = <<>>
    /\ raised = None /\ result = NoResult

NextString ==
    TokenizeFlat \/ ParseStylesheet \/ ParseRulesStep \/ ReturnStylesheet

SpecString == InitString /\ [][NextString]_vars

(***************************************************************************)
(* C19                                                                     *)
(***************************************************************************)

\* The line and the column of the character at position p of a text: one
\* more than the newlines before it, '\r\n' being one, and one more than
\* the characters between the last of them and p.
LineOf(text, p) ==
    1 + Cardinality({i \in 1..(p - 1) :
            \/ text[i] \in {10, 12}
            \/ text[i] = 13 /\ ~(i < Len(text) /\ text[i + 1] = 10)})

ColumnOf(text, p) == p - Max0({i \in 1..(p - 1) : IsNewline(text[i])})

\* The position in the text of the first character of a token.
TokenStart(text, token) ==
    CHOOSE p \in 1..Len(text) :
        LineOf(text, p) = token.line /\ ColumnOf(text, p) = token.column

\* The position after the last character of the i-th token: where the next
\* one starts, or the end of the text.
TokenEnd(text, toks, i) ==
    IF i < Len(toks) THEN TokenStart(text, toks[i + 1]) ELSE Len(text) + 1

\* A string read from the character after its opening quote on: whether it
\* is closed, and where it stops: at its closing quote, at a newline that
\* no backslash precedes, or after the end of the text.  A backslash takes
\* the character after it, '\r\n' being one; the texts hold no hex digit.
RECURSIVE ScanString(_, _, _)
ScanString(text, p, quote) ==
    IF p > Len(text) THEN [closed |-> FALSE, stop |-> Len(text) + 1]
    ELSE IF text[p] = quote THEN [closed |-> TRUE, stop |-> p]
    ELSE IF IsNewline(text[p]) THEN [closed |-> FALSE, stop |-> p]
    ELSE IF text[p] # 92 THEN ScanString(text, p + 1, quote)
    ELSE IF p + 2 <= Len(text) /\ text[p + 1] = 13 /\ text[p + 2] = 10
    THEN ScanString(text, p + 3, quote)
    ELSE ScanString(text, p + 2, quote)

\* The token that starts with a quote at position start is the string
\* scanned from there: a STRING up to its closing quote; when it is not
\* closed, a STRING if and only if it runs to the end of the text, and
\* otherwise a BAD_STRING whose value is its text, which stops at the
\* newline, where the next token, white space, starts.
StringTokenOf(text, toks, i, start, scan) ==
    /\ toks[i].type \in {"STRING", "BAD_STRING"}
    /\ TokenEnd(text, toks, i) =
           IF scan.closed THEN scan.stop + 1 ELSE scan.stop
    /\ scan.closed => toks[i].type = "STRING"
    /\ ~scan.closed =>
           /\ toks[i].type = "STRING" <=> scan.stop = Len(text) + 1
           /\ scan.stop <= Len(text) =>
                  /\ toks[i].type = "BAD_STRING"
                  /\ toks[i].value = Text(SubSeq(text, start, scan.stop - 1))
                  /\ toks[i].value = toks[i].css_start
                  /\ IsNewline(text[scan.stop])
                  /\ toks[i + 1].type = "S"

StringsTokenized ==
    \A i \in 1..Len(flat) :
        LET start == TokenStart(css_unicode, flat[i]) IN
        css_unicode[start] \in {34, 39} =>
            StringTokenOf(css_unicode, flat, i, start,
                ScanString(css_unicode, start + 1, css_unicode[start]))

\* A BAD_STRING among the tokens, or in the containers among them.
RECURSIVE HasBadString(_)
HasBadString(toks) ==
    \E i \in 1..Len(toks) :
        \/ toks[i].type = "BAD_STRING"
        \/ toks[i].is_container /\ HasBadString(toks[i].content)

DeclarationsHaveBadString(declarations) ==
    \E d \in 1..Len(declarations) :
        HasBadString(declarations[d].value.content)

\* A BAD_STRING in the selector or in a declaration of a rule of the
\* output, or of a rule of an @media rule.
RuleHasBadString(rule) ==
    \/ /\ rule.at_keyword = None
       /\ \/ HasBadString(rule.selector.content)
          \/ DeclarationsHaveBadString(rule.declarations)
    \/ /\ rule.at_keyword = "@page"
       /\ DeclarationsHaveBadString(rule.declarations)
    \/ /\ rule.at_keyword = "@media"
       /\ \E j \in 1..Len(rule.rules) :
              \/ HasBadString(rule.rules[j].selector.content)
              \/ DeclarationsHaveBadString(rule.rules[j].declarations)

NoBadStringInOutput ==
    \A r \in 1..Len(result.rules) : ~RuleHasBadString(result.rules[r])

\* 'unexpected BAD_STRING token in <context>'
UnexpectedBadString ==
    {"unexpected BAD_STRING token in " \o context :
        context \in {"selector", "property value", "at-rule head",
                     "{", "[", "("}}

\* The errors of a BAD_STRING that stands where the name or the ':' of a
\* declaration is expected.
ExpectedGotBadString ==
    {"expected a property name, got BAD_STRING",
     "expected ':', got BAD_STRING"}

\* The error is between the first token of the k-th statement and the first
\* token of the next one.
ErrorInStatement(statements, k, e) ==
    /\ NotAfter(statements[k][1], e)
    /\ k < Len(statements) => StrictlyBefore(e, statements[k + 1][1])

\* Every statement that holds a BAD_STRING has an error with one of the
\* reasons.
BadStringStatementsHaveError(statements, reasons) ==
    \A k \in 1..Len(statements) :
        HasBadString(SubSeq(statements[k], 1,
                            StatementEnd(statements[k]))) =>
            \E e \in 1..Len(result.errors) :
                /\ ErrorInStatement(statements, k, result.errors[e])
                /\ result.errors[e].reason \in reasons

\* The reasons of the errors of the result.
ErrorReasons == {result.errors[e].reason : e \in 1..Len(result.errors)}

\* The errors raised at a BAD_STRING token name it.
ErrorsAtBadStringNameIt ==
    \A e \in 1..Len(result.errors) :
        (\E i \in 1..Len(flat) :
            /\ flat[i].type = "BAD_STRING"
            /\ flat[i].line = result.errors[e].line
            /\ flat[i].column = result.errors[e].column)
        => result.errors[e].reason
               \in UnexpectedBadString \cup ExpectedGotBadString

\* C19 as stated: a string that is not closed is a STRING if and only if it
\* runs to the end of the input; one that stops at an unescaped newline is
\* a BAD_STRING whose value is its raw text, and the next token starts at
\* that newline; no BAD_STRING is in the output, and the statement that
\* holds one has an 'unexpected BAD_STRING token in ...' error.
BadStringIsUnexpected ==
    /\ pc # "tokenize_flat" => StringsTokenized
    /\ IsSheet =>
           /\ NoBadStringInOutput
           /\ BadStringStatementsHaveError(StatementSlices(regroup(flat)),
                                           UnexpectedBadString)

\* C19, amended: the same for the tokens; no BAD_STRING is in the output,
\* the statement that holds one has an error, and an error raised at the
\* BAD_STRING is 'unexpected BAD_STRING token in ...', or 'expected a
\* property name, got BAD_STRING' or "expected ':', got BAD_STRING" where
\* the name or the ':' of a declaration is expected.
BadStringIsDropped ==
    /\ pc # "tokenize_flat" => StringsTokenized
    /\ IsSheet =>
           /\ NoBadStringInOutput
           /\ BadStringStatementsHaveError(StatementSlices(regroup(flat)),
                                           ErrorReasons)
           /\ ErrorsAtBadStringNameIt

\* 'x{x:"', a newline and '"x': the first string stops at the newline and
\* its declaration is dropped, the second one runs to the end of the text.
BadStringWitness ==
    /\ IsSheet
    /\ Len(flat) = 7
    /\ flat[5].type = "BAD_STRING" /\ flat[6].type = "S"
    /\ flat[6].line = 1 /\ flat[6].column = 6
    /\ flat[7].type = "STRING" /\ flat[7].line = 2 /\ flat[7].column = 1
    /\ flat[7].value = "x"
    /\ Len(result.rules) = 1 /\ result.rules[1].declarations = <<>>
    /\ Len(result.errors) = 1
    /\ result.errors[1].reason
           = "unexpected BAD_STRING token in property value"
    /\ result.errors[1].column = 5

(***************************************************************************)
(* tokenize_flat with and without the comments                             *)
(***************************************************************************)

\* Longest text with comments.
MaxCommentLen == 6

\* 'x', '/', '*', a newline and '"'.
CommentAlphabet == {120, 47, 42, 10, 34}

CommentTexts == SeqsUpTo(CommentAlphabet, MaxCommentLen)

\* Either tokenize_flat is called twice on a text, with ignore_comments
\* False and then True, or parse_stylesheet is called on it.
InitComments ==
    /\ css_unicode \in CommentTexts
    /\ \/ entry = "tokenize_flat" /\ pc = "tokenize_flat_with_comments"
       \/ entry = "parse_stylesheet" /\ pc = "tokenize_flat"
    /\ encoding = None
    /\ css_bytes = <<>> /\ hints = <<>>
    /\ flat = <<>> /\ tokens = <<>> /\ rules = <<>> /\ errors = <<>>
    /\ raised = None /\ result = NoResult

\* tokenize_flat(css_source, ignore_comments=False)
TokenizeFlatWithComments ==
    /\ pc = "tokenize_flat_with_comments"
    /\ flat' = tokenize_flat(css_unicode, FALSE)
    /\ pc' = "tokenize_flat_ignoring_comments"
    /\ UNCHANGED <<encoding, tokens, rules, errors, raised, result,
                   css_bytes, hints, css_unicode, entry>>

\* tokenize_flat(css_source, ignore_comments=True)
TokenizeFlatIgnoringComments ==
    /\ pc = "tokenize_flat_ignoring_comments"
    /\ tokens' = tokenize_flat(css_unicode, TRUE)
    /\ pc' = "done"
    /\ UNCHANGED <<flat, encoding, rules, errors, raised, result,
                   css_bytes, hints, css_unicode, entry>>

NextComments ==
    \/ TokenizeFlatWithComments \/ TokenizeFlatIgnoringComments
    \/ TokenizeFlat \/ ParseStylesheet \/ ParseRulesStep \/ ReturnStylesheet

SpecComments == InitComments /\ [][NextComments]_vars

(***************************************************************************)
(* C20                                                                     *)
(***************************************************************************)

IsComment(token) == token.type \in {"COMMENT", "BAD_COMMENT"}

\* Both calls of tokenize_flat have returned: flat holds the tokens with
\* the comments, tokens those without.
IsTokenizedTwice == entry = "tokenize_flat" /\ pc = "done"

\* No error of the result is at the position of a comment of the text.
NoErrorAtComment(with_comments) ==
    \A e \in 1..Len(result.errors) :
        \A i \in 1..Len(with_comments) :
            IsComment(with_comments[i]) =>
                ~(/\ result.errors[e].line = with_comments[i].line
                  /\ result.errors[e].column = with_comments[i].column)

\* C20: for every text, tokenize_flat with ignore_comments=True returns the
\* tokens that it returns with ignore_comments=False without the COMMENT
\* and BAD_COMMENT tokens, each with the same type, value, line and column
\* (the unit is None for every token of these texts); the parser is given
\* no comment and reports no error at a BAD_COMMENT or COMMENT.
CommentsOnlyRemoved ==
    /\ IsTokenizedTwice =>
           tokens = SelectSeq(flat, LAMBDA token : ~IsComment(token))
    /\ (entry = "parse_stylesheet" /\ IsSheet) =>
           /\ \A i \in 1..Len(flat) : ~IsComment(flat[i])
           /\ NoErrorAtComment(tokenize_flat(css_unicode, FALSE))

\* '/*', a newline, '*/x': the comment is removed and 'x' is at line 2,
\* column 3 in both lists.
CommentsWitness ==
    /\ IsTokenizedTwice
    /\ Len(flat) = 2 /\ flat[1].type = "COMMENT"
    /\ Len(tokens) = 1 /\ tokens[1].type = "IDENT"
    /\ tokens[1].line = 2 /\ tokens[1].column = 3
    /\ flat[2] = tokens[1]

\* '/*x*x': a BAD_COMMENT that stops at the last '*', before the end of the
\* text, is removed and the 'x' after it is kept.
BadCommentWitness ==
    /\ IsTokenizedTwice
    /\ Len(flat) = 2 /\ flat[1].type = "BAD_COMMENT"
    /\ tokens = <<flat[2]>> /\ flat[2].type = "IDENT"

(***************************************************************************)
(* tokenize_flat on texts of several lines                                 *)
(***************************************************************************)

\* Most pieces of a text.
MaxPieces == 4

\* '/*', '*/', 'x', '"', a backslash, the newlines \n, \r, \f and \r\n, and
\* a backslash with a newline.
Pieces ==
    {<<47, 42>>, <<42, 47>>, <<120>>, <<34>>, <<92>>, <<10>>, <<13>>, <<12>>,
     <<13, 10>>, <<92, 10>>}

LinesTexts == {Concat(ps) : ps \in SeqsUpTo(Pieces, MaxPieces)}

\* tokenize_flat is called twice on a text, with ignore_comments False and
\* then True.
InitLines ==
    /\ css_unicode \in LinesTexts
    /\ entry = "tokenize_flat" /\ pc = "tokenize_flat_with_comments"
    /\ encoding = None
    /\ css_bytes = <<>> /\ hints = <<>>
    /\ flat = <<>> /\ tokens = <<>> /\ rules = <<>> /\ errors = <<>>
    /\ raised = None /\ result = NoResult

NextLines == TokenizeFlatWithComments \/ TokenizeFlatIgnoringComments

SpecLines == InitLines /\ [][NextLines]_vars

(***************************************************************************)
(* C21                                                                     *)
(***************************************************************************)

\* The matches of a text from pos on: where each starts, and its type.
RECURSIVE MatchStarts(_, _)
MatchStarts(text, pos) ==
    IF pos > Len(text) THEN <<>>
    ELSE <<[pos |-> pos, type |-> FirstMatch(text, pos).type]>>
             \o MatchStarts(text, FirstMatch(text, pos).next_pos)

\* Each token has the line and the column of the character its match
\* starts at.
PositionsOf(text, toks, starts) ==
    /\ Len(toks) = Len(starts)
    /\ \A i \in 1..Len(toks) :
           /\ toks[i].line = LineOf(text, starts[i].pos)
           /\ toks[i].column = ColumnOf(text, starts[i].pos)

\* C21: the line of every token is one more than the newlines ('\n', '\r\n'
\* counted once, '\r', '\f') of the text before its first character, and
\* its column one more than the characters between the last of them and
\* that character, whatever tokens come before: comments of several lines,
\* strings with escaped newlines, and comments that are not returned.
PositionsCountNewlines ==
    IsTokenizedTwice =>
        /\ PositionsOf(css_unicode, flat, MatchStarts(css_unicode, 1))
        /\ PositionsOf(css_unicode, tokens,
               SelectSeq(MatchStarts(css_unicode, 1),
                         LAMBDA m : m.type \notin {"COMMENT", "BAD_COMMENT"}))

\* '/*', '\r\n', '*/', 'x': the comment holds one newline, '\r\n', and is
\* not returned; 'x' is at line 2, column 3.
PositionsWitness ==
    /\ IsTokenizedTwice
    /\ css_unicode = <<47, 42, 13, 10, 42, 47, 120>>
    /\ Len(flat) = 2 /\ flat[1].type = "COMMENT"
    /\ Len(tokens) = 1 /\ tokens[1].type = "IDENT"
    /\ tokens[1].line = 2 /\ tokens[1].column = 3

\* '"', a backslash and a newline, '"', 'x': the string holds an escaped
\* newline and 'x' is at line 2, column 2.
EscapedNewlineWitness ==
    /\ IsTokenizedTwice
    /\ css_unicode = <<34, 92, 10, 34, 120>>
    /\ Len(flat) = 2 /\ flat[1].type = "STRING" /\ flat[1].value = ""
    /\ flat[2].line = 2 /\ flat[2].column = 2

(***************************************************************************)
(* C22                                                                     *)
(***************************************************************************)

\* `''.join(token.as_css for token in tokens)` on atomic tokens.
RECURSIVE JoinAsCss(_)
JoinAsCss(toks) ==
    IF toks = <<>> THEN "" ELSE Head(toks).css_start \o JoinAsCss(Tail(toks))

\* The text between the start of a match and the start of the next one.
MatchText(text, starts, i) ==
    SubSeq(text, starts[i].pos,
           IF i < Len(starts) THEN starts[i + 1].pos - 1 ELSE Len(text))

\* Every iteration of the loop, wherever it starts, moves pos forward and
\* not beyond the end of the text.
EveryMatchAdvances(text) ==
    \A pos \in 1..Len(text) :
        /\ FirstMatch(text, pos).next_pos > pos
        /\ FirstMatch(text, pos).next_pos <= Len(text) + 1

IsTokenizedWithComments ==
    entry = "tokenize_flat" /\ pc # "tokenize_flat_with_comments"

\* C22: tokenize_flat with ignore_comments=False ends on every text, each
\* iteration taking at least one character, and its tokens' as_css, joined
\* in order, are the text: token i is the text from the start of match i to
\* the start of the next match, nothing skipped and nothing twice.
AsCssJoinsToText ==
    IsTokenizedWithComments =>
        /\ EveryMatchAdvances(css_unicode)
        /\ Len(flat) = Len(MatchStarts(css_unicode, 1))
        /\ \A i \in 1..Len(flat) :
               /\ flat[i].css_start # ""
               /\ flat[i].css_start =
                      Text(MatchText(css_unicode,
                                     MatchStarts(css_unicode, 1), i))
        /\ JoinAsCss(flat) = Text(css_unicode)

\* '/**/', '"', 'x': a comment and a string that the end of the text
\* closes; both keep their source text.
AsCssWitness ==
    /\ IsTokenizedWithComments
    /\ css_unicode = <<47, 42, 42, 47, 34, 120>>
    /\ Len(flat) = 2
    /\ flat[1].type = "COMMENT" /\ flat[1].css_start = "/**/"
    /\ flat[2].type = "STRING" /\ flat[2].value = "x"
    /\ JoinAsCss(flat) = Text(css_unicode)

(***************************************************************************)
(* color3.parse_color on HASH tokens                                       *)
(***************************************************************************)

\* Most characters after the '#' of a HASH value.
MaxHashLen == 7

\* '1', 'F', 'a', 'g' and the newline that the escape '\a' stands for.
\* Only ASCII digits are drawn: which other characters \d matches depends
\* on the version of Python.
HashAlphabet == {49, 70, 97, 103, 10}

\* The values of HASH tokens, as code points: '#' and a name of one
\* character or more.
HashValues ==
    {<<35>> \o name : name \in SeqsUpTo(HashAlphabet, MaxHashLen) \ {<<>>}}

\* `$` without re.MULTILINE: the end of the string, or the place before a
\* newline that ends the string.
EndOfString(value, pos) ==
    \/ pos = Len(value) + 1
    \/ pos = Len(value) /\ value[pos] = 10

\* A regexp of HASH_REGEXPS, '^#' then three groups of `width` characters of
\* [\da-f] (re.I) then '$': the groups of the match, if any.
HashMatch(value, width) ==
    IF /\ Len(value) >= 1 + 3 * width
       /\ value[1] = 35
       /\ \A i \in 2..(1 + 3 * width) : IsHex(value[i])
       /\ EndOfString(value, 2 + 3 * width)
    THEN [matched |-> TRUE,
          groups |-> [g \in 1..3 |->
                         SubSeq(value, 2 + (g - 1) * width, 1 + g * width)]]
    ELSE [matched |-> FALSE]

\* `group * multiplier`: a string repeated.
Repeated(group, multiplier) ==
    IF multiplier = 2 THEN group \o group ELSE group

\* `[int(group * multiplier, 16) / 255. ...]`, `return r, g, b, 1.`; a
\* channel is kept as the number that 255 divides.
HashColor(groups, multiplier) ==
    [is_none |-> FALSE,
     r |-> HexValue(Repeated(groups[1], multiplier)),
     g |-> HexValue(Repeated(groups[2], multiplier)),
     b |-> HexValue(Repeated(groups[3], multiplier)),
     over |-> 255, a |-> 1]

\* The None that parse_color returns when it returns no colour.
NoColor == [is_none |-> TRUE]

\* parse_color, for the tokens that are no IDENT: HASH_REGEXPS in order,
\* and None at the end of the function.
parse_color(token) ==
    IF token.type = "HASH"
    THEN IF HashMatch(token.value, 1).matched
         THEN HashColor(HashMatch(token.value, 1).groups, 2)
         ELSE IF HashMatch(token.value, 2).matched
         THEN HashColor(HashMatch(token.value, 2).groups, 1)
         ELSE NoColor
    ELSE NoColor

\* A HASH token is given to parse_color; its value is kept as code points,
\* and its as_css, which parse_color does not read, is left empty.
InitColor ==
    /\ \E value \in HashValues :
           tokens = <<Token("HASH", "", value, 1, 1)>>
    /\ entry = "parse_color" /\ pc = "parse_color"
    /\ encoding = None
    /\ css_bytes = <<>> /\ hints = <<>> /\ css_unicode = <<>>
    /\ flat = <<>> /\ rules = <<>> /\ errors = <<>>
    /\ raised = None /\ result = NoResult

ParseColor ==
    /\ pc = "parse_color"
    /\ result' = [returned |-> TRUE, color |-> parse_color(tokens[1])]
    /\ pc' = "done"
    /\ UNCHANGED <<flat, encoding, tokens, rules, errors, raised,
                   css_bytes, hints, css_unicode, entry>>

NextColor == ParseColor

SpecColor == InitColor /\ [][NextColor]_vars

(***************************************************************************)
(* C23                                                                     *)
(***************************************************************************)

IsColorDone == entry = "parse_color" /\ pc = "done"

\* '#' and then exactly n hex digits.
IsHashOfHex(value, n) ==
    /\ Len(value) = n + 1
    /\ value[1] = 35
    /\ \A i \in 2..Len(value) : IsHex(value[i])

\* '#xyz' written as '#xxyyzz'.
Doubled(value) ==
    <<35, value[2], value[2], value[3], value[3], value[4], value[4]>>

\* The channels are the two-digit values over 255, and alpha is 1.
IsColorOf(color, six) ==
    /\ ~color.is_none
    /\ color.r = HexValue(SubSeq(six, 2, 3))
    /\ color.g = HexValue(SubSeq(six, 4, 5))
    /\ color.b = HexValue(SubSeq(six, 6, 7))
    /\ color.over = 255 /\ color.a = 1

\* '#xyz' and '#xxyyzz' give the same colour, the two-digit values over 255.
HexColorsParsed ==
    IsColorDone =>
        /\ IsHashOfHex(tokens[1].value, 6) =>
               IsColorOf(result.color, tokens[1].value)
        /\ IsHashOfHex(tokens[1].value, 3) =>
               /\ IsColorOf(result.color, Doubled(tokens[1].value))
               /\ result.color =
                      parse_color(Token("HASH", "", Doubled(tokens[1].value),
                                        1, 1))

\* C23: parse_color returns a colour for a HASH token only when its value
\* is '#' and exactly three or exactly six hex digits of any case, and None
\* for any other length or any other character; '#xyz' gives what '#xxyyzz'
\* gives, each channel the two-digit value over 255 and alpha 1.
ColorOnlyOfThreeOrSixHex ==
    /\ HexColorsParsed
    /\ IsColorDone =>
           (~result.color.is_none <=>
                \/ IsHashOfHex(tokens[1].value, 3)
                \/ IsHashOfHex(tokens[1].value, 6))

\* Three or six hex digits and a newline at the end of the value.
EndsWithNewlineAfterHex(value) ==
    /\ value[Len(value)] = 10
    /\ \/ IsHashOfHex(SubSeq(value, 1, Len(value) - 1), 3)
       \/ IsHashOfHex(SubSeq(value, 1, Len(value) - 1), 6)

\* But for a newline that ends the value, a colour is returned for three or
\* six hex digits only.
ColorOnlyOfThreeOrSixHexOrNewline ==
    IsColorDone =>
        (~result.color.is_none <=>
             \/ IsHashOfHex(tokens[1].value, 3)
             \/ IsHashOfHex(tokens[1].value, 6)
             \/ EndsWithNewlineAfterHex(tokens[1].value))

\* '#1Fa' is the colour of '#11FFaa': 17, 255 and 170 over 255.
ColorWitness ==
    /\ IsColorDone
    /\ tokens[1].value = <<35, 49, 70, 97>>
    /\ result.color = [is_none |-> FALSE, r |-> 17, g |-> 255, b |-> 170,
                       over |-> 255, a |-> 1]

\* The value of '#1Fa\a': a colour is returned for it.
ColorOfNewlineWitness ==
    /\ IsColorDone
    /\ tokens[1].value = <<35, 49, 70, 97, 10>>
    /\ result.color = [is_none |-> FALSE, r |-> 17, g |-> 255, b |-> 170,
                       over |-> 255, a |-> 1]

(***************************************************************************)
(* '@page{...}' with declarations, at-rules and containers in the block    *)
(***************************************************************************)

\* Most parts of the block of an @page rule.
MaxPageParts == 4

\* 'a:a;', 'B:a', 'a', ';', white space, '@foo', '@page', '@charset', '{}'
\* and '[]'.
PageParts ==
    {<<kA, kColon, kA, kSemi>>, <<kB, kColon, kA>>, <<kA>>, <<kSemi>>,
     <<kS>>, <<kFoo>>, <<kPage>>, <<kCharset>>, <<kLB, kRB>>, <<kLK, kRK>>}

\* '@page{', the parts, '}'.
PageStylesheets ==
    {Positioned(<<kPage, kLB>> \o Concat(ps) \o <<kRB>>) :
        ps \in SeqsUpTo(PageParts, MaxPageParts)}

InitPage ==
    /\ pc = "parse_stylesheet"
    /\ flat \in PageStylesheets
    /\ encoding = None
    /\ tokens = <<>> /\ rules = <<>> /\ errors = <<>>
    /\ raised = None /\ result = NoResult
    /\ css_bytes = <<>> /\ hints = <<>> /\ css_unicode = <<>>
    /\ entry = pc

NextPage == ParseStylesheet \/ ParseRulesStep \/ ReturnStylesheet

SpecPage == InitPage /\ [][NextPage]_vars

(***************************************************************************)
(* C24                                                                     *)
(***************************************************************************)

\* The tokens of the block of the @page rule a stylesheet is made of.
PageBody == regroup(flat)[2].content

IsPageSheet == entry = "parse_stylesheet" /\ pc = "done"

\* The first position of toks from i on that satisfies Test, or
\* Len(toks) + 1.
FirstFrom(toks, i, Test(_)) ==
    Min({j \in i..Len(toks) : Test(toks[j])} \cup {Len(toks) + 1})

\* The parts of a block that the loop of parse_page_block meets, from
\* position i on: an at-rule with the positions of its at-keyword and of
\* its last token, or the tokens of a declaration.
RECURSIVE PageSegments(_, _)
PageSegments(toks, i) ==
    IF i > Len(toks) THEN <<>>
    ELSE IF toks[i].type = "S" THEN PageSegments(toks, i + 1)
    ELSE IF toks[i].type = "ATKEYWORD"
    THEN <<[at_rule |-> TRUE, from |-> i,
            to |-> Min({FirstFrom(toks, i + 1, EndsAtRule), Len(toks)})]>>
             \o PageSegments(toks, FirstFrom(toks, i + 1, EndsAtRule) + 1)
    ELSE IF EndsPageDeclaration(toks[i]) THEN PageSegments(toks, i + 1)
    ELSE <<[at_rule |-> FALSE, from |-> i,
            to |-> FirstFrom(toks, i, EndsPageDeclaration) - 1]>>
             \o PageSegments(toks, FirstFrom(toks, i, EndsPageDeclaration) + 1)

AtRulesMet(toks) == SelectSeq(PageSegments(toks, 1), LAMBDA m : m.at_rule)

\* The declarations of the parts that parse as declarations, in order.
RECURSIVE DeclarationsOfSegments(_, _)
DeclarationsOfSegments(toks, segs) ==
    IF segs = <<>> THEN <<>>
    ELSE IF Head(segs).at_rule
    THEN DeclarationsOfSegments(toks, Tail(segs))
    ELSE LET d == parse_declaration(SubSeq(toks, Head(segs).from,
                                           Head(segs).to))
         IN  (IF d.exc = NoExc THEN <<d.declaration>> ELSE <<>>)
                 \o DeclarationsOfSegments(toks, Tail(segs))

\* The declarations of the parts before and after the at-rules are kept.
PageDeclarationsKept ==
    result.rules[1].declarations =
        DeclarationsOfSegments(PageBody, PageSegments(PageBody, 1))

\* "unknown at-rule in @page context: <keyword>" or "<keyword> rule not
\* allowed in @page".
NotInPage(at_keyword) ==
    {"unknown at-rule in @page context: " \o at_keyword,
     at_keyword \o " rule not allowed in @page"}

\* The errors of an at-rule that could not be read, or that is an @charset.
NotReadOrCharset ==
    {"incomplete at-rule", "unexpected ATKEYWORD token in at-rule head",
     "mis-placed or malformed @charset rule"}

\* The at-rule m of the block gave one error, one of reasons.
AtRuleDropped(toks, m, reasons) ==
    /\ Len(ErrorsBetween(toks[m.from].column, toks[m.to].column)) = 1
    /\ ErrorsBetween(toks[m.from].column, toks[m.to].column)[1].reason
           \in reasons

\* PageRule.at_rules is empty, each at-rule of the block gave one error out
\* of those of reasons, and the declarations are kept.
AtRulesDropped(other_reasons) ==
    IsPageSheet =>
        /\ Len(result.rules) = 1
        /\ result.rules[1].at_keyword = "@page"
        /\ result.rules[1].at_rules = <<>>
        /\ \A k \in 1..Len(AtRulesMet(PageBody)) :
               AtRuleDropped(PageBody, AtRulesMet(PageBody)[k],
                   NotInPage(Lower(PageBody[AtRulesMet(PageBody)[k].from].value))
                       \cup other_reasons)
        /\ PageDeclarationsKept

\* C24: with the CSS 2.1 parser PageRule.at_rules is empty; every at-rule
\* met in an @page block is dropped with the error "unknown at-rule in
\* @page context" or "<keyword> rule not allowed in @page", and the
\* declarations before and after it are parsed and kept.
AtRulesInPageNotAllowed == AtRulesDropped({})

\* As C24, the error of an at-rule being also "incomplete at-rule", the
\* error of its head, or "mis-placed or malformed @charset rule".
AtRulesInPageDropped == AtRulesDropped(NotReadOrCharset)

\* '@page{a:a;@foo;B:a}': both declarations, and one error for '@foo;'.
AtRulesInPageWitness ==
    /\ IsPageSheet
    /\ flat = Positioned(<<kPage, kLB, kA, kColon, kA, kSemi, kFoo, kSemi,
                           kB, kColon, kA, kRB>>)
    /\ Len(result.rules[1].declarations) = 2
    /\ result.rules[1].declarations[1].name = "a"
    /\ result.rules[1].declarations[2].name = "b"
    /\ result.rules[1].at_rules = <<>>
    /\ Len(result.errors) = 1
    /\ result.errors[1].reason = "unknown at-rule in @page context: @foo"

\* '@page{@charset;B:a}': the error of '@charset;' is that of a misplaced
\* @charset rule.
CharsetInPageWitness ==
    /\ IsPageSheet
    /\ flat = Positioned(<<kPage, kLB, kCharset, kSemi, kB, kColon, kA, kRB>>)
    /\ Len(result.rules[1].declarations) = 1
    /\ Len(result.errors) = 1
    /\ result.errors[1].reason = "mis-placed or malformed @charset rule"

(***************************************************************************)
(* read_at_rule on the tokens after an at-keyword                          *)
(***************************************************************************)

\* Most parts after the at-keyword.
MaxAtRuleLen == 5

\* White space, 'a', ';', '{a}', '<!--' and '[]'.
AtRuleParts ==
    {<<kS>>, <<kA>>, <<kSemi>>, <<kLB, kA, kRB>>, <<kCDO>>, <<kLK, kRK>>}

\* '@IMPORT' and the parts.
AtRuleStreams ==
    {Positioned(<<kIMPORT>> \o Concat(ps)) :
        ps \in SeqsUpTo(AtRuleParts, MaxAtRuleLen)}

InitAtRule ==
    /\ pc = "read_at_rule"
    /\ flat \in AtRuleStreams
    /\ encoding = None
    /\ tokens = <<>> /\ rules = <<>> /\ errors = <<>>
    /\ raised = None /\ result = NoResult
    /\ css_bytes = <<>> /\ hints = <<>> /\ css_unicode = <<>>
    /\ entry = pc

\* read_at_rule(at_keyword_token, tokens) on the iterator of the tokens
\* after the at-keyword; tokens becomes what is left of the iterator.
ReadAtRule ==
    /\ pc = "read_at_rule"
    /\ result' = read_at_rule(Head(regroup(flat)), Tail(regroup(flat)))
    /\ tokens' = read_at_rule(Head(regroup(flat)), Tail(regroup(flat))).rest
    /\ pc' = "done"
    /\ UNCHANGED <<flat, encoding, rules, errors, raised,
                   css_bytes, hints, css_unicode, entry>>

NextAtRule == ReadAtRule

SpecAtRule == InitAtRule /\ [][NextAtRule]_vars

(***************************************************************************)
(* C25                                                                     *)
(***************************************************************************)

IsAtRuleRead == entry = "read_at_rule" /\ pc = "done"

\* The tokens that follow the at-keyword.
AfterAtKeyword == Tail(regroup(flat))

\* The positions of the '{' containers and of the ';'.
AtRuleEnds(toks) == {i \in 1..Len(toks) : toks[i].type \in {"{", ";"}}

\* The positions before position j that are not white space.
NotSpaceBefore(toks, j) == {i \in 1..(j - 1) : toks[i].type # "S"}

\* The tokens before position j, from the first to the last that is not
\* white space.
HeadBefore(toks, j) ==
    IF NotSpaceBefore(toks, j) = {} THEN <<>>
    ELSE SubSeq(toks, Min(NotSpaceBefore(toks, j)),
                Max0(NotSpaceBefore(toks, j)))

\* A token of the 'any' production: one of its types, or a function, '(' or
\* '[' that holds such tokens only.
RECURSIVE IsAny(_)
IsAny(token) ==
    IF token.type \in {"FUNCTION", "(", "["}
    THEN \A i \in 1..Len(token.content) : IsAny(token.content[i])
    ELSE token.type \in AnyTypes

\* The at-rule that ends at position j of toks was read.
AtRuleReadUpTo(toks, j) ==
    /\ tokens = SubSeq(toks, j + 1, Len(toks))
    /\ result.rule.at_keyword = "@import"
    /\ result.rule.head = HeadBefore(toks, j)
    /\ result.rule.body = (IF toks[j].type = "{" THEN toks[j] ELSE NoToken)
    /\ result.exc = NoExc <=>
           \A i \in 1..Len(HeadBefore(toks, j)) : IsAny(HeadBefore(toks, j)[i])
    /\ result.exc # NoExc => result.exc.exc = "ParseError"

\* C25: read_at_rule takes the tokens up to and including the first '{'
\* container or ';' and no more; the head is what it took before that
\* token without the white space after the at-keyword and without the
\* white space at the end; the body is the '{' container or None; a head
\* token that is not 'any' fails the at-rule; the end of the tokens before
\* a '{' or ';' is the error "incomplete at-rule".
AtRuleReadToItsEnd ==
    IsAtRuleRead =>
        IF AtRuleEnds(AfterAtKeyword) = {}
        THEN /\ result.exc.exc = "ParseError"
             /\ result.exc.reason = "incomplete at-rule"
             /\ tokens = <<>>
        ELSE AtRuleReadUpTo(AfterAtKeyword, Min(AtRuleEnds(AfterAtKeyword)))

\* '@IMPORT a []{a}': the head is 'a', white space and '[]', and the body
\* is '{a}'.
AtRuleReadWitness ==
    /\ IsAtRuleRead
    /\ flat = Positioned(<<kIMPORT, kS, kA, kS, kLK, kRK, kLB, kA, kRB>>)
    /\ result.exc = NoExc
    /\ Len(result.rule.head) = 3
    /\ result.rule.head[1].type = "IDENT"
    /\ result.rule.head[2].type = "S"
    /\ result.rule.body.type = "{"
    /\ tokens = <<>>

\* '@IMPORT<!--;a': the at-rule fails at '<!--' and 'a' is left.
AtRuleHeadFailsWitness ==
    /\ IsAtRuleRead
    /\ flat = Positioned(<<kIMPORT, kCDO, kSemi, kA>>)
    /\ result.exc.exc = "ParseError"
    /\ result.exc.reason = "unexpected CDO token in at-rule head"
    /\ Len(tokens) = 1 /\ tokens[1].type = "IDENT"

(***************************************************************************)
(* tokenize_flat on names and strings with escapes                         *)
(***************************************************************************)

\* Most characters after the first one of a text.
MaxEscapeLen == 6

\* A backslash, '5', 'c' and 'x': '\5c' is the escape of a backslash.
EscapeAlphabet == {92, 53, 99, 120}

\* 'x' or '"', and then the characters: a name, or a string that the end of
\* the text closes, and the backslash that may be left at the end.
EscapeTexts ==
    {<<first>> \o rest :
        first \in {120, 34}, rest \in SeqsUpTo(EscapeAlphabet, MaxEscapeLen)}

InitEscape ==
    /\ css_unicode \in EscapeTexts
    /\ entry = "tokenize_flat" /\ pc = "tokenize_flat_with_comments"
    /\ encoding = None
    /\ css_bytes = <<>> /\ hints = <<>>
    /\ flat = <<>> /\ tokens = <<>> /\ rules = <<>> /\ errors = <<>>
    /\ raised = None /\ result = NoResult

NextEscape == TokenizeFlatWithComments \/ TokenizeFlatIgnoringComments

SpecEscape == InitEscape /\ [][NextEscape]_vars

(***************************************************************************)
(* C26                                                                     *)
(***************************************************************************)

\* One pass from the left over a text without newlines: a backslash and hex
\* digits are the character of that code point, a backslash and any other
\* character are that character, and each escape is decoded once.
RECURSIVE SinglePass(_, _)
SinglePass(text, pos) ==
    IF pos > Len(text) THEN <<>>
    ELSE IF text[pos] = 92 /\ pos < Len(text)
    THEN IF IsHex(text[pos + 1])
         THEN <<unicode_replace(
                    SubSeq(text, pos + 1, HexEnd(text, pos + 1, 6) - 1))>>
                  \o SinglePass(text, UnicodeEscapeEnd(text, pos))
         ELSE <<text[pos + 1]>> \o SinglePass(text, pos + 2)
    ELSE <<text[pos]>> \o SinglePass(text, pos + 1)

\* What the tokenizer decodes of the text of a token: all of a name, and a
\* string without its opening quote (no string of EscapeTexts has a closing
\* one).
Escaped(type_, text) == IF type_ = "STRING" THEN Tail(text) ELSE text

\* The value of each name and string is what one pass decodes.
DecodedAsInOnePass(text) ==
    LET starts == MatchStarts(text, 1) IN
    /\ Len(flat) = Len(starts)
    /\ \A i \in 1..Len(flat) :
           flat[i].type \in {"IDENT", "STRING"} =>
               flat[i].value =
                   Text(SinglePass(Escaped(flat[i].type,
                                           MatchText(text, starts, i)), 1))

\* C26: for every token text, decoding in layers (all the unicode escapes,
\* then all the backslash escapes) gives what one pass from the left gives,
\* each escape decoded once: an escaped backslash followed by hex digits is
\* a backslash and those digits.
LayersAreOnePass ==
    IsTokenizedWithComments => DecodedAsInOnePass(css_unicode)

\* A backslash that the text escapes, by '\\' or by its code point, and a
\* character after it.
HasEscapedBackslash(text) ==
    \E i \in 1..(Len(text) - 1) :
        /\ text[i] = 92
        /\ \/ text[i + 1] = 92 /\ i + 1 < Len(text)
           \/ /\ unicode_replace(SubSeq(text, i + 1,
                                        HexEnd(text, i + 1, 6) - 1)) = 92
              /\ IsHex(text[i + 1])
              /\ HexEnd(text, i + 1, 6) <= Len(text)

\* The layers give what one pass gives when no backslash is escaped.
LayersAreOnePassOtherwise ==
    (IsTokenizedWithComments /\ ~HasEscapedBackslash(css_unicode)) =>
        DecodedAsInOnePass(css_unicode)

\* 'x\\5': the name is 'x' and the character U+0005, not 'x\5'.
EscapedBackslashWitness ==
    /\ IsTokenizedWithComments
    /\ css_unicode = <<120, 92, 92, 53>>
    /\ Len(flat) = 1 /\ flat[1].type = "IDENT"
    /\ flat[1].value = Text(<<120, 5>>)
    /\ Text(SinglePass(css_unicode, 1)) = "x\\5"

(***************************************************************************)
(* C27                                                                     *)
(***************************************************************************)

\* No part of the block between its ';' starts with an at-keyword.
NoAtRuleInBlock(toks) ==
    \A k \in 1..Len(SplitParts(toks, <<>>, <<>>)) :
        SplitParts(toks, <<>>, <<>>)[k][1].type # "ATKEYWORD"

\* The @page rule has the declarations and the errors that
\* parse_declaration_list gives for the tokens of its block.
PageBlockAsDeclarationList ==
    /\ result.rules[1].declarations =
           parse_declaration_list(PageBody).declarations
    /\ result.errors = parse_declaration_list(PageBody).errors

\* C27: in an @page block a declaration is every token from its first one
\* that is not white space to the next ';' of the block or to its end,
\* empty '()', '[]', '{}' and functions included: when no part of the block
\* starts with an at-keyword, parse_page_block gives the declarations and
\* the errors of parse_declaration_list.
PageDeclarationsSpanToSemicolon ==
    (IsPageSheet /\ NoAtRuleInBlock(PageBody)) => PageBlockAsDeclarationList

\* A container without content among the tokens of the block.
HasEmptyContainer(toks) == \E i \in 1..Len(toks) : ~Truthy(toks[i])

\* Without an empty container in the block, the declarations and the
\* errors are those of parse_declaration_list.
PageDeclarationsSpanOtherwise ==
    (IsPageSheet /\ NoAtRuleInBlock(PageBody) /\ ~HasEmptyContainer(PageBody))
        => PageBlockAsDeclarationList

\* '@page{B:a[]B:a}': two declarations, where parse_declaration_list gives
\* one.
EmptyContainerEndsDeclarationWitness ==
    /\ IsPageSheet
    /\ flat = Positioned(<<kPage, kLB, kB, kColon, kA, kLK, kRK,
                           kB, kColon, kA, kRB>>)
    /\ Len(result.rules[1].declarations) = 2
    /\ Len(parse_declaration_list(PageBody).declarations) = 1
    /\ result.errors = <<>>

(***************************************************************************)
(* Stylesheets of @import rules and of the rules that forbid them          *)
(***************************************************************************)

ImportOrderStatements ==
    {<<kImport, kS, kStr, kSemi>>,                      \* @import "u";
     <<kIMPORT, kS, kStr, kS, kA, kSemi>>,              \* @IMPORT "u" a;
     <<kImport, kSemi>>,                                \* @import;
     <<kA, kLB, kRB>>,                                  \* a{}
     <<kA, kSemi>>,                                     \* a;
     <<kMedia, kS, kA, kLB, kImport, kS, kStr, kSemi, kA, kLB, kRB,
       kRB>>,                                           \* @media a{@import "u";a{}}
     <<kPage, kLB, kImport, kS, kStr, kSemi, kRB>>,     \* @page{@import "u";}
     <<kCharset, kS, kStr, kSemi>>,                     \* @charset "u";
     <<kFoo, kSemi>>}                                   \* @foo;

ImportOrderStylesheets ==
    {Positioned(Concat(ss)) :
        ss \in SeqsUpTo(ImportOrderStatements, MaxStatements + 1)}

InitImportOrder ==
    /\ pc = "parse_stylesheet"
    /\ flat \in ImportOrderStylesheets
    /\ encoding = None
    /\ tokens = <<>> /\ rules = <<>> /\ errors = <<>>
    /\ raised = None /\ result = NoResult
    /\ css_bytes = <<>> /\ hints = <<>> /\ css_unicode = <<>>
    /\ entry = pc

NextImportOrder == ParseStylesheet \/ ParseRulesStep \/ ReturnStylesheet

SpecImportOrder == InitImportOrder /\ [][NextImportOrder]_vars

(***************************************************************************)
(* C28                                                                     *)
(***************************************************************************)

IsImportRule(rule) == rule.at_keyword = "@import"

\* The ImportRules are the first rules of the list.
ImportsFirst(rules_) ==
    \A i \in 1..Len(rules_) :
        IsImportRule(rules_[i]) =>
            \A j \in 1..(i - 1) : IsImportRule(rules_[j])

\* No ImportRule in PageRule.at_rules.
NoImportInPage(rules_) ==
    \A i \in 1..Len(rules_) :
        rules_[i].at_keyword = "@page" =>
            \A j \in 1..Len(rules_[i].at_rules) :
                ~IsImportRule(rules_[i].at_rules[j])

\* C28: in every Stylesheet that parse_stylesheet returns the ImportRules
\* are the first rules: no ruleset, MediaRule or PageRule is before an
\* ImportRule, and no ImportRule is in MediaRule.rules or in
\* PageRule.at_rules.
ImportRulesArePrefix ==
    IsSheet =>
        /\ ImportsFirst(result.rules)
        /\ NoImportInMedia(result.rules)
        /\ NoImportInPage(result.rules)

\* '@import "u";a{}@import "u";': the first @import and the ruleset are
\* rules, and the second @import is an error.
ImportRulesArePrefixWitness ==
    /\ IsSheet
    /\ flat = Positioned(<<kImport, kS, kStr, kSemi, kA, kLB, kRB,
                           kImport, kS, kStr, kSemi>>)
    /\ Len(result.rules) = 2
    /\ IsImportRule(result.rules[1])
    /\ result.rules[2].at_keyword = None
    /\ Len(result.errors) = 1
    /\ result.errors[1].reason = "@import rule not allowed after a ruleset"

(***************************************************************************)
(* One declaration list in a ruleset, an @page rule or a style attribute   *)
(***************************************************************************)

\* White space, 'a', '!', 'important', ';' and ':'.
DeclarationKinds == {kS, kA, kBang, kImportant, kSemi, kColon}

\* 'B:' or ' B :', and up to MaxValueLen tokens.
DeclarationLists ==
    {name \o rest :
        name \in {<<kB, kColon>>, <<kS, kB, kS, kColon>>},
        rest \in SeqsUpTo(DeclarationKinds, MaxValueLen)}

\* The list alone, in 'a{' and '}', or in '@page{' and '}'.
InitDeclarations ==
    /\ \E list \in DeclarationLists :
           \/ /\ pc = "parse_style_attr"
              /\ flat = Positioned(list)
           \/ /\ pc = "parse_stylesheet"
              /\ flat \in {Positioned(<<kA, kLB>> \o list \o <<kRB>>),
                           Positioned(<<kPage, kLB>> \o list \o <<kRB>>)}
    /\ encoding = None
    /\ tokens = <<>> /\ rules = <<>> /\ errors = <<>>
    /\ raised = None /\ result = NoResult
    /\ css_bytes = <<>> /\ hints = <<>> /\ css_unicode = <<>>
    /\ entry = pc

NextDeclarations ==
    ParseStylesheet \/ ParseRulesStep \/ ReturnStylesheet \/ ParseStyleAttr

SpecDeclarations == InitDeclarations /\ [][NextDeclarations]_vars

(***************************************************************************)
(* C29                                                                     *)
(***************************************************************************)

\* The declarations that the parser returned.
ReturnedDeclarations ==
    IF IsStyleAttr THEN result.declarations
    ELSE IF IsSheet /\ result.rules # <<>> THEN result.rules[1].declarations
    ELSE <<>>

\* The token at column is the first one of its part of the list that is not
\* white space: only white space is between it and the ';' or the start of
\* the list before it.
StartsDeclaration(column) ==
    \E from \in 1..column :
        /\ from = 1 \/ flat[from - 1].type \in {";", "{"}
        /\ \A i \in from..(column - 1) : flat[i].type = "S"

\* The value has a token, and neither its first nor its last one is white
\* space.
ValueIsTrimmed(value) ==
    /\ Len(value.content) >= 1
    /\ value.content[1].type # "S"
    /\ value.content[Len(value.content)].type # "S"

\* C29: every Declaration that the parser returns, from a ruleset, an @page
\* block or parse_style_attr, has a value of at least one token that
\* neither starts nor ends with white space, also when '!important' was
\* taken from it, and its name is the lower-cased value of the IDENT that
\* starts the declaration.
DeclarationsAreTrimmed ==
    \A k \in 1..Len(ReturnedDeclarations) :
        LET d == ReturnedDeclarations[k] IN
        /\ ValueIsTrimmed(d.value)
        /\ flat[d.column].type = "IDENT"
        /\ StartsDeclaration(d.column)
        /\ d.name = Lower(flat[d.column].value)

\* '@page{ B :a !important}': the declaration 'b' has the value 'a' and the
\* priority 'important'.
DeclarationsAreTrimmedWitness ==
    /\ IsSheet
    /\ flat = Positioned(<<kPage, kLB, kS, kB, kS, kColon, kA, kS, kBang,
                           kImportant, kRB>>)
    /\ Len(ReturnedDeclarations) = 1
    /\ ReturnedDeclarations[1].name = "b"
    /\ ReturnedDeclarations[1].priority = "important"
    /\ Len(ReturnedDeclarations[1].value.content) = 1
    /\ ReturnedDeclarations[1].value.content[1].type = "IDENT"

\* ' B : a ' as a style attribute: the declaration 'b' has the value 'a'.
StyleAttrTrimmedWitness ==
    /\ IsStyleAttr
    /\ flat = Positioned(<<kS, kB, kS, kColon, kS, kA, kS>>)
    /\ Len(ReturnedDeclarations) = 1
    /\ ReturnedDeclarations[1].name = "b"
    /\ Len(ReturnedDeclarations[1].value.content) = 1

(***************************************************************************)
(* Stylesheets of statements that are dropped with a block of their own    *)
(***************************************************************************)

DroppedStatements ==
    {<<kA, kCDO, kLB, kA, kRB>>,                        \* a<!--{a}
     <<kFoo, kLB, kA, kRB>>,                            \* @foo{a}
     <<kMedia, kLB, kA, kLB, kA, kRB, kRB>>,            \* @media{a{a}}
     <<kMedia, kSemi>>,                                 \* @media;
     <<kPage, kS, kA, kLB, kA, kRB>>,                   \* @page a{a}
     <<kImport, kS, kStr, kLB, kA, kRB>>,               \* @import "u"{a}
     <<kPage, kSemi>>,                                  \* @page;
     <<kA, kLB, kA, kRB>>,                              \* a{a}
     <<kMedia, kS, kA, kLB, kA, kLB, kA, kRB, kFoo, kSemi,
       kRB>>,                                           \* @media a{a{a}@foo;}
     <<kA, kSemi>>,                                     \* a;
     <<kS>>,                                            \* (a space)
     <<kCDO>>}                                          \* <!--

DroppedStylesheets ==
    {Positioned(Concat(ss)) :
        ss \in SeqsUpTo(DroppedStatements, MaxStatements + 1)}

InitDropped ==
    /\ pc = "parse_stylesheet"
    /\ flat \in DroppedStylesheets
    /\ encoding = None
    /\ tokens = <<>> /\ rules = <<>> /\ errors = <<>>
    /\ raised = None /\ result = NoResult
    /\ css_bytes = <<>> /\ hints = <<>> /\ css_unicode = <<>>
    /\ entry = pc

NextDropped == ParseStylesheet \/ ParseRulesStep \/ ReturnStylesheet

SpecDropped == InitDropped /\ [][NextDropped]_vars

(***************************************************************************)
(* C30                                                                     *)
(***************************************************************************)

\* The loop of parse_rules takes a token that starts a statement.
StatementStep ==
    /\ pc = "parse_rules"
    /\ tokens # <<>>
    /\ Head(tokens).type \notin {"S", "CDO", "CDC"}

\* One rule is appended to rules, the errors recorded so far being kept.
OneRuleAppended ==
    /\ Len(rules') = Len(rules) + 1
    /\ SubSeq(rules', 1, Len(rules)) = rules
    /\ Len(errors') >= Len(errors)
    /\ SubSeq(errors', 1, Len(errors)) = errors

\* The column of the first block among the tokens, or of the last token.
FirstBlockColumn(toks) ==
    toks[Min({i \in 1..Len(toks) : toks[i].type = "{"}
                 \cup {Len(toks)})].column

\* One ParseError is appended to errors and rules is as it was; the error
\* is not at a token inside the block of the statement.
OneErrorAppended ==
    /\ rules' = rules
    /\ Len(errors') = Len(errors) + 1
    /\ SubSeq(errors', 1, Len(errors)) = errors
    /\ errors'[Len(errors')].column <= FirstBlockColumn(tokens)

\* C30: every statement that parse_rules starts (a token other than S, CDO
\* and CDC) ends in one of two ways: one rule is appended to rules, or one
\* ParseError is appended to errors and no rule; a statement that is
\* dropped gives no error for its block, which is not parsed.
StatementsEndInOneOfTwoWays ==
    [][StatementStep =>
          /\ pc' = "parse_rules"
          /\ OneRuleAppended \/ OneErrorAppended
      ]_vars

\* A statement that does not make parse_rules raise ends in one of the two
\* ways.
StatementsEndInOneOfTwoWaysUnlessRaised ==
    [][(StatementStep /\ pc' = "parse_rules") =>
          OneRuleAppended \/ OneErrorAppended
      ]_vars

\* 'a<!--{a}' was dropped with the error of its selector alone, and '@media;'
\* then made parse_rules raise.
RaisedAfterDroppedWitness ==
    /\ pc = "raised" /\ raised = "AttributeError"
    /\ flat = Positioned(<<kA, kCDO, kLB, kA, kRB, kMedia, kSemi>>)
    /\ rules = <<>>
    /\ Len(errors) = 1
    /\ errors[1].reason = "unexpected CDO token in selector"

====
